---- MODULE Spec2Model ----
(***************************************************************************)
(* Model of the Wright editor's document store (src/src/stores/documents.ts *)
(* over the Dexie helpers of lib/db): the optimistic in-memory document,    *)
(* the debounced auto-save, saveNow, updateTitle, loadDocument and          *)
(* deleteCurrentDocument, with every await a separate step; and of the       *)
(* editor component (Editor.svelte, src/unnamed/part_000): the throttled    *)
(* selection handler, the focus-mode style element, the typewriter scroll   *)
(* animation and the creation of the Milkdown editor per document, with     *)
(* every animation-frame callback a separate step; and of the settings      *)
(* store (src/src/stores/settings.ts) with the theme it applies.            *)
(*                                                                          *)
(* Text is modelled structurally: a string without line breaks is a         *)
(* sequence of one-character strings, and a document content is the         *)
(* sequence of its lines (what content.split('\n') returns), so "" is       *)
(* << <<>> >>.                                                              *)
(***************************************************************************)
EXTENDS Integers, Sequences, FiniteSets, TLC

\* ------------------------------------------------------------------ bounds

\* Number of entries of ContentPool the editor may send to updateContent.
NumContents == 3
\* Number of entries of ContentPool typed while documents are switched.
NumSwitchContents == 1
\* Number of entries of ContentPool typed while saves fail and saveNow is used.
NumSaveContents == 2
\* Number of entries of TitlePool the toolbar may send to updateTitle.
NumTitles == 1
\* Async store operations that may be in flight at once.
MaxTasks == 2
\* Timer table size (the code keeps at most one debounce timer pending).
MaxTimers == 2

\* Granularity of the model's clock, in ms.
TickMs == 1000
\* Documents in the store when the application starts.
InitDocs == 2
\* Largest id the store's auto-increment key may hand out.
MaxDocId == 3

\* Writes of the settings that may be in flight at once.
MaxSettingWrites == 2

\* Frame callbacks of the content listener that may be pending at once.
MaxTypewriterRaf == 1

\* Editors created in a run.
MaxEditors == 4

\* The display's frame period in ms (60 frames a second).
FrameMs == 17

\* Granularity of the editor's clock (performance.now()), in ms, while
\* selection events are followed.
ClockMs == 10
\* The clock reading after which no further selection event is followed.
MaxNow == 110
\* Largest number of top-level children of the ProseMirror root.
MaxBlocks == 2
\* Granularity of the clock, in ms, while the typewriter scroll is followed.
ScrollClockMs == 250
\* The clock reading after which the typewriter scroll is not followed.
MaxScrollNow == 1010
\* Number of entries of CursorPool the cursor's document Y is drawn from.
NumCursorYs == 2

\* ------------------------------------------------------- program constants

\* setTimeout(..., 1000) in updateContent.
DEBOUNCE_MS == 1000
\* Throttle of handleSelectionChange.
SELECTION_CHANGE_THROTTLE_MS == 50
\* The typewriter animation gives up after this long.
TYPEWRITER_MAX_ANIMATION_MS == 500
\* A cursor jump larger than this scrolls at once.
INSTANT_SCROLL_THRESHOLD == 30

\* ------------------------------------------------------------------- text

IsSpace(ch) == ch = " "

RECURSIVE TrimLeft(_)
TrimLeft(s) ==
  IF s # <<>> /\ IsSpace(Head(s)) THEN TrimLeft(Tail(s)) ELSE s

RECURSIVE TrimRight(_)
TrimRight(s) ==
  IF s # <<>> /\ IsSpace(s[Len(s)]) THEN TrimRight(SubSeq(s, 1, Len(s) - 1)) ELSE s

\* String.prototype.trim
Trim(s) == TrimRight(TrimLeft(s))

\* s.startsWith(d, i) with 1-based i
StartsWithAt(s, d, i) ==
  /\ i + Len(d) - 1 <= Len(s)
  /\ \A k \in 1..Len(d) : s[i + k - 1] = d[k]

RECURSIVE CountLeading(_, _)
CountLeading(s, ch) ==
  IF s # <<>> /\ Head(s) = ch THEN 1 + CountLeading(Tail(s), ch) ELSE 0

\* .replace(/^#{1,6}\s+/, ''): the leading run of 1..6 '#' must be followed by
\* whitespace; the run and all the whitespace after it are removed.
StripHeading(s) ==
  LET k == CountLeading(s, "#")
      rest == SubSeq(s, k + 1, Len(s))
  IN IF k >= 1 /\ k <= 6 /\ rest # <<>> /\ IsSpace(Head(rest))
       THEN TrimLeft(rest)
       ELSE s

\* Positions j >= from where the closing delimiter d starts.
ClosingAt(s, d, from) == { j \in from..Len(s) : StartsWithAt(s, d, j) }

Min(S) == CHOOSE x \in S : \A y \in S : x <= y

\* .replace(/D(.+?)D/g, '$1') for a literal delimiter D: leftmost matches, the
\* lazy group takes at least one character, the scan resumes after the match.
RECURSIVE StripPairFrom(_, _, _)
StripPairFrom(s, d, i) ==
  IF i > Len(s) THEN <<>>
  ELSE IF StartsWithAt(s, d, i) /\ ClosingAt(s, d, i + Len(d) + 1) # {}
    THEN LET j == Min(ClosingAt(s, d, i + Len(d) + 1))
         IN SubSeq(s, i + Len(d), j - 1) \o StripPairFrom(s, d, j + Len(d))
    ELSE <<s[i]>> \o StripPairFrom(s, d, i + 1)

StripPair(s, d) == StripPairFrom(s, d, 1)

\* .replace(/<[^>]*>/g, '')
RECURSIVE StripTagsFrom(_, _)
StripTagsFrom(s, i) ==
  IF i > Len(s) THEN <<>>
  ELSE IF s[i] = "<" /\ ClosingAt(s, <<">">>, i + 1) # {}
    THEN StripTagsFrom(s, Min(ClosingAt(s, <<">">>, i + 1)) + 1)
    ELSE <<s[i]>> \o StripTagsFrom(s, i + 1)

StripTags(s) == StripTagsFrom(s, 1)

\* .replace(/\[(.+?)\]\(.+?\)/g, '$1'): "[text](url)" becomes "text". The text
\* group is lazy but may run over a "]" that is not followed by "(x...)".
LinkEnds(s, i) ==
  { e \in (i + 5)..Len(s) :
      /\ s[e] = ")"
      /\ \E j \in (i + 2)..(e - 3) : s[j] = "]" /\ s[j + 1] = "(" }

LinkTextEnd(s, i) ==
  Min({ j \in (i + 2)..Len(s) :
          /\ s[j] = "]"
          /\ j + 1 <= Len(s) /\ s[j + 1] = "("
          /\ \E e \in (j + 3)..Len(s) : s[e] = ")" })

RECURSIVE StripLinksFrom(_, _)
StripLinksFrom(s, i) ==
  IF i > Len(s) THEN <<>>
  ELSE IF s[i] = "[" /\ LinkEnds(s, i) # {}
    THEN LET j == LinkTextEnd(s, i)
             e == Min({ x \in (j + 3)..Len(s) : s[x] = ")" })
         IN SubSeq(s, i + 1, j - 1) \o StripLinksFrom(s, e + 1)
    ELSE <<s[i]>> \o StripLinksFrom(s, i + 1)

StripLinks(s) == StripLinksFrom(s, 1)

\* The inline-code delimiter (a one-character string like the others).
Backtick == "bq"

\* The replace chain of extractTitleFromContent applied to one trimmed line.
StripMarkdown(trimmed) ==
  Trim(StripTags(StripLinks(
    StripPair(StripPair(StripPair(StripPair(StripPair(StripPair(
      StripHeading(trimmed),
      <<"*", "*">>), <<"*">>), <<"_", "_">>), <<"_">>), <<"~", "~">>), <<Backtick>>))))

\* The null of extractTitleFromContent. Every title it returns is non-empty, so
\* the empty string stands for null (both are falsy in "extractedTitle || ...").
NullTitle == <<>>

\* extractTitleFromContent: the stripped first line that is non-empty before
\* and after stripping, or null.
RECURSIVE ExtractFrom(_, _)
ExtractFrom(lines, i) ==
  IF i > Len(lines) THEN NullTitle
  ELSE LET trimmed == Trim(lines[i])
       IN IF trimmed # <<>> /\ StripMarkdown(trimmed) # <<>>
            THEN StripMarkdown(trimmed)
            ELSE ExtractFrom(lines, i + 1)

extractTitleFromContent(content) == ExtractFrom(content, 1)

Untitled == <<"Untitled">>

\* extractedTitle || 'Untitled'
NewTitle(content) ==
  IF extractTitleFromContent(content) = NullTitle THEN Untitled
  ELSE extractTitleFromContent(content)

\* ----------------------------------------------------------------- inputs

\* Markdown the editor may hand to updateContent: "A", "A\nB", "# B", "",
\* "**B**\nA".
ContentPool ==
  << << <<"A">> >>,
     << <<"A">>, <<"B">> >>,
     << <<"#", " ", "B">> >>,
     << <<>> >>,
     << <<"*", "*", "B", "*", "*">>, <<"A">> >> >>

Contents == { ContentPool[i] : i \in 1..NumContents }

SwitchContents == { ContentPool[i] : i \in 1..NumSwitchContents }

SaveContents == { ContentPool[i] : i \in 1..NumSaveContents }

\* Titles the toolbar may hand to updateTitle: "B", "*A*", "A".
TitlePool == << <<"B">>, <<"*", "A", "*">>, <<"A">> >>

Titles == { TitlePool[i] : i \in 1..NumTitles }

DocIds == 1..MaxDocId

\* ------------------------------------------------------------------ state

VARIABLES
  currentDocument,   \* writable<Document | null>: <<>> or
                     \* <<[id, title, content, wordCount]>>
  currentDocumentId, \* writable<number | null>: 0 stands for null
  documents,         \* writable<Document[]>: the cached list
  saveStatus,        \* 'saved' | 'saving' | 'unsaved'
  saveTimeout,       \* the module's timer handle: 0 stands for null
  timers,            \* the runtime's timer table: handle -> <<>> or <<callback>>
  tasks,             \* the async calls awaiting the store, oldest first
  db,                \* db.documents: id -> <<>> or <<[title, content, wordCount]>>
  dbOrder,           \* the ids of db.documents by updatedAt, newest first
  nextId,            \* the next key of the '++id' auto-increment
  uncaught,          \* whether this step ended in an unhandled promise rejection
  obs                \* history, for stating properties; the program has no such state:
                     \*   issued: the contents the debounce callbacks have started to
                     \*           write since the last updateContent call
                     \*   sinceFail: a save failed and neither updateContent nor
                     \*           saveNow has been called since
                     \*   lateWrites: the ids of the documents for which a
                     \*           debounce callback's write has resolved
                     \*           after the document was deleted

vars == << currentDocument, currentDocumentId, documents, saveStatus,
           saveTimeout, timers, tasks, db, dbOrder, nextId, uncaught, obs >>

EmptyContent == << <<>> >>

\* The characters of the model's alphabet that [\w'-] matches.
IsWordChar(ch) == ch \in {"A", "B", "_", "'", "-"}

RECURSIVE WordsFrom(_, _)
\* The matches of /[\w'-]+/g in a line from position i on: the positions
\* where a run of word characters starts.
WordsFrom(s, i) ==
  IF i > Len(s) THEN 0
  ELSE (IF IsWordChar(s[i]) /\ (i = 1 \/ ~IsWordChar(s[i - 1])) THEN 1 ELSE 0)
         + WordsFrom(s, i + 1)

RECURSIVE WordsOfLines(_, _)
WordsOfLines(content, k) ==
  IF k > Len(content) THEN 0
  ELSE WordsFrom(content[k], 1) + WordsOfLines(content, k + 1)

\* countWords(text): the number of runs of word characters; a line break
\* is not a word character, so the runs are counted line by line.
countWords(content) == WordsOfLines(content, 1)

NoTimers == [h \in 1..MaxTimers |-> <<>>]

\* A row of db.documents as the Document getDocument / getAllDocuments returns.
DocOf(store, id) ==
  [id |-> id, title |-> store[id][1].title, content |-> store[id][1].content,
   wordCount |-> store[id][1].wordCount]

RECURSIVE ListOf(_, _)
\* getAllDocuments: db.documents.reverse().sortBy('updatedAt')
ListOf(store, order) ==
  IF order = <<>> THEN <<>>
  ELSE <<DocOf(store, Head(order))>> \o ListOf(store, Tail(order))

Without(seq, i) == SubSeq(seq, 1, i - 1) \o SubSeq(seq, i + 1, Len(seq))

RECURSIVE RemoveId(_, _)
RemoveId(order, id) ==
  IF order = <<>> THEN <<>>
  ELSE IF Head(order) = id THEN RemoveId(Tail(order), id)
  ELSE <<Head(order)>> \o RemoveId(Tail(order), id)

\* createDocument('Untitled', '') for every document present at start; the
\* application has run initializeDocuments, which loads the list and selects
\* its first entry.
InitDb == [id \in DocIds |->
             IF id <= InitDocs
               THEN <<[title |-> Untitled, content |-> EmptyContent,
                       wordCount |-> countWords(EmptyContent)]>>
             ELSE <<>>]

InitOrder == [i \in 1..InitDocs |-> InitDocs + 1 - i]

\* ------------------------------------------------------- the editor's state

\* Tags of the top-level children the ProseMirror root may have: a paragraph
\* (recognised by getBlockIndex), a horizontal rule and a table (not
\* recognised).
Tags == {"p", "hr", "table"}

\* The tags of getBlockIndex's selector that the model uses.
BlockTags == {"p"}

\* The children a text cursor can be inside of (not a horizontal rule); a
\* table's cells hold paragraphs, so findActiveBlock finds a block in them.
CursorTags == {"p", "table"}

\* The roots: 1..MaxBlocks children.
Roots == UNION { [1..n -> Tags] : n \in 1..MaxBlocks }

\* The cursor's Y in the document, in tenths of a pixel.
CursorPool == << 1100, 800, 1000, 1600 >>

CursorYs == { CursorPool[i] : i \in 1..NumCursorYs }

\* Tenths of a pixel in a pixel: lengths are kept in tenths of a pixel, the
\* thresholds of the code are in pixels.
Px == 10

\* scrollAreaRect.height / 2, in tenths of a pixel.
ViewHalf == 1000

\* The largest scrollTop the scroll area can have (scrollHeight minus
\* clientHeight), in tenths of a pixel.
MaxScrollTop == 400

VARIABLES
  mounted,           \* the component is initialised and not destroyed
  focusMode,         \* $settings.focusMode
  typewriterMode,    \* $settings.typewriterMode
  root,              \* the tags of the ProseMirror root's children, in order
  cursor,            \* the child the selection is in; 0: no selection
  focusModeStyleEl,  \* whether the variable refers to a style element
  headStyles,        \* number of focus style elements in document.head
  styleRule,         \* the n of nth-child(n) in the element's text; 0: no text
  lastActiveBlockIndex,
  styleTouched,      \* whether this step created the style element or set its
                     \* text (history; the program has no such state)
  now,               \* performance.now()
  lastSelectionChangeTime,
  selectionChangeRaf,          \* <<>> or <<the clock reading of the request>>
  scrollTop,                   \* scrollArea.scrollTop, in tenths of a pixel
  currentScrollTarget,
  isTypewriterAnimating,
  typewriterAnimationFrame,    \* whether a frame of the animation is requested
  typewriterAnimationStartTime,
  lastCursorY,
  typewriterRaf,               \* the frame callbacks of the content listener that
                               \* are requested and have not run (their handles
                               \* are not kept)
  eobs               \* history, for stating properties; the program has no such state:
                     \*   start: the clock reading of the first selection event, or -1
                     \*   runs: the full recomputations since then
                     \*   unprocessed: a selection event has had no recomputation yet
                     \*   synced: applyFocusActiveStyle has run since the
                     \*           selection or the root last changed
                     \*   repeat: since then it has also run with the cursor at
                     \*           the index it had recorded
                     \*   rafInFocus: the trailing frame was requested with
                     \*           focus mode on
                     \*   lateFrame: a trailing frame requested with focus mode
                     \*           on has run with focus mode off
                     \*   lastRun: the clock reading of the last full
                     \*           recomputation, or -1
                     \*   frames: the trailing frame callbacks requested and
                     \*           neither run nor cancelled
                     \*   unmeasured: applyTypewriterMode has returned for want
                     \*           of a measurable cursor, with the mode on
                     \*   chains: the animation frame callbacks requested and
                     \*           neither run nor cancelled
                     \*   idleCalls: the cancellation functions that have been
                     \*           called with nothing for them to cancel
                     \*   teardown: what onDestroy cancelled and released, in
                     \*           the order it did so
                     \*   taskStart: the clock reading at which the running (or last)
                     \*           typewriter animation task started
                     \*   timedOut: that task was stopped by its time limit
                     \*   cancelled: an instant scroll has cancelled a running
                     \*           animation since the last task started

evars == << mounted, focusMode, typewriterMode, root, cursor, focusModeStyleEl,
            headStyles, styleRule, lastActiveBlockIndex, styleTouched, now,
            lastSelectionChangeTime, selectionChangeRaf, scrollTop,
            currentScrollTarget, isTypewriterAnimating, typewriterAnimationFrame,
            typewriterAnimationStartTime, lastCursorY, typewriterRaf, eobs >>

focusVars == << focusModeStyleEl, headStyles, styleRule, lastActiveBlockIndex >>

throttleVars == << lastSelectionChangeTime, selectionChangeRaf >>

scrollVars == << scrollTop, currentScrollTarget, isTypewriterAnimating,
                 typewriterAnimationFrame, typewriterAnimationStartTime,
                 lastCursorY, typewriterRaf >>

NoHistory == [start |-> -1, runs |-> 0, unprocessed |-> FALSE, synced |-> FALSE,
              repeat |-> FALSE, rafInFocus |-> FALSE, lateFrame |-> FALSE,
              lastRun |-> -1, frames |-> 0, unmeasured |-> FALSE,
              chains |-> 0, idleCalls |-> {}, teardown |-> <<>>,
              taskStart |-> 0, timedOut |-> FALSE, cancelled |-> FALSE]

\* The component after onMount with an empty document (one paragraph, the
\* cursor in it) and both modes off.
InitEditor ==
  /\ mounted = TRUE
  /\ focusMode = FALSE
  /\ typewriterMode = FALSE
  /\ root = <<"p">>
  /\ cursor = 1
  /\ focusModeStyleEl = FALSE
  /\ headStyles = 0
  /\ styleRule = 0
  /\ lastActiveBlockIndex = -1
  /\ styleTouched = FALSE
  /\ now = 0
  /\ lastSelectionChangeTime = 0
  /\ selectionChangeRaf = <<>>
  /\ scrollTop = 0
  /\ currentScrollTarget = 0
  /\ isTypewriterAnimating = FALSE
  /\ typewriterAnimationFrame = FALSE
  /\ typewriterAnimationStartTime = 0
  /\ lastCursorY = 0
  /\ typewriterRaf = 0
  /\ eobs = NoHistory

\* ------------------------------------------------- the settings store's state

Themes == {"dark", "light"}

\* The boolean settings that have a toggle function.
ToggleKeys == {"sidebarOpen", "focusMode", "typewriterMode", "showFormatting"}

SettingKeys == {"theme"} \cup ToggleKeys

\* defaultSettings, with the theme and the toggled settings (the other fields
\* are only ever merged and stored).
defaultSettings ==
  [theme |-> "dark", focusMode |-> FALSE, typewriterMode |-> FALSE,
   sidebarOpen |-> FALSE, showFormatting |-> FALSE]

\* What the store holds under 'settings': a Partial<Settings>, as the keys
\* it has and their values (the values of the other keys are not read).
Stored(keys, value) == [keys |-> keys, value |-> value]

\* Nothing stored (getSetting's default {}), a theme alone ('dark', 'light'
\* or the legacy 'system'), and the full settings an earlier session saved.
StoredSettings ==
  {Stored({}, defaultSettings)}
    \cup { Stored({"theme"}, [defaultSettings EXCEPT !.theme = t]) :
             t \in {"dark", "light", "system"} }
    \cup { Stored(SettingKeys, [defaultSettings EXCEPT !.theme = t,
                                                       !.sidebarOpen = TRUE]) :
             t \in {"light", "system"} }

VARIABLES
  settingsPc,      \* "closed": the page is not open; "main": main.ts has run;
                   \* "loaded": loadSettings has returned
  settings,        \* the settings store's value
  dataTheme,       \* the data-theme attribute of the document element
  settingsDb,      \* the store's 'settings' entry
  settingsWrites,  \* the values of the setSetting calls in flight, in order
  sobs             \* history: the setting the last call toggled ("none" if
                   \* it was no toggle), the settings before that call, and
                   \* whether the call before it toggled the same setting

svars == << settingsPc, settings, dataTheme, settingsDb, settingsWrites, sobs >>

InitSettings ==
  /\ settingsPc = "closed"
  /\ settings = defaultSettings
  /\ dataTheme = "none"
  /\ settingsDb = Stored({}, defaultSettings)
  /\ settingsWrites = <<>>
  /\ sobs = [last |-> "none", before |-> defaultSettings, twice |-> FALSE]

\* ------------------------------------------- the editor instances' state

VARIABLES
  editorInstance,    \* the Milkdown editor the variable refers to; 0: null
  editors,           \* the editors created and not destroyed, each with the
                     \* document it was created for and the content it shows
  creating,          \* the initEditor calls awaiting Editor.make()...create(),
                     \* oldest first, each with its document and content
  lastDocumentId,
  madeEditors        \* the number of editors created so far (their names)

ivars == << editorInstance, editors, creating, lastDocumentId, madeEditors >>

\* editor.destroy() on the editor named e (0: "if (editorInstance)" is
\* false); destroying a destroyed editor is caught and changes nothing.
Destroyed(alive, e) == { x \in alive : x.id # e }

\* After onMount: initEditor has completed for the first document.
InitInstances ==
  /\ editorInstance = 1
  /\ editors = {[id |-> 1, doc |-> InitOrder[1], content |-> EmptyContent]}
  /\ creating = <<>>
  /\ lastDocumentId = InitOrder[1]
  /\ madeEditors = 1

Init ==
  /\ InitEditor
  /\ InitSettings
  /\ InitInstances
  /\ db = InitDb
  /\ dbOrder = InitOrder
  /\ nextId = InitDocs + 1
  /\ documents = ListOf(InitDb, InitOrder)
  /\ currentDocument = <<DocOf(InitDb, InitOrder[1])>>
  /\ currentDocumentId = InitOrder[1]
  /\ saveStatus = "saved"
  /\ saveTimeout = 0
  /\ timers = NoTimers
  /\ tasks = <<>>
  /\ uncaught = FALSE
  /\ obs = [issued |-> <<>>, sinceFail |-> FALSE, lateWrites |-> {}]

\* ------------------------------------------------------------------ timers

\* A clearTimeout that clears nothing (the debounce without its reset).
ClearTimeout_Noop(table, handle) == table

\* clearTimeout(handle) behind "if (saveTimeout)": a null handle, or one whose
\* timer is gone, clears nothing.
ClearTimeout(table, handle) ==
  IF handle = 0 THEN table ELSE [table EXCEPT ![handle] = <<>>]

FreeHandles(table) == { h \in 1..MaxTimers : table[h] = <<>> }

\* The handle setTimeout returns.
NewHandle(table) == Min(FreeHandles(table))

\* The callback updateContent hands to setTimeout, with what it closes over.
Callback(doc, content, newTitle, titleChanged) ==
  [remaining |-> DEBOUNCE_MS, id |-> doc.id, content |-> content,
   newTitle |-> newTitle, titleChanged |-> titleChanged]

Pending(table) == { h \in 1..MaxTimers : table[h] # <<>> }

\* ------------------------------------------------------------------- tasks

\* An async call in flight. kind: which function awaits; pc: the await it is
\* at; id, content, title, hasTitle: what it closed over.
Task(kind, pc, id, content, title, hasTitle) ==
  [kind |-> kind, pc |-> pc, id |-> id, content |-> content,
   title |-> title, hasTitle |-> hasTitle]

SaveKinds == {"timer", "saveNow"}

\* --------------------------------------------------------- the store (db)

\* const newTitle = extractedTitle || 'Untitled', tabulated over the inputs.
TitleOf == [c \in Contents |-> NewTitle(c)]

\* A write that puts the row (db.documents.put) instead of updating it: a
\* missing key is created.
DbUpdate_Put(store, t) ==
  [store EXCEPT ![t.id] =
     <<[title |-> IF t.hasTitle \/ @ = <<>> THEN t.title ELSE @[1].title,
        content |-> t.content,
        wordCount |-> countWords(t.content)]>>]

\* db.documents.update(id, updatedData): the fields given replace the row's;
\* a key that is not there is left alone.
DbUpdate(store, t) ==
  IF store[t.id] = <<>> THEN store
  ELSE [store EXCEPT ![t.id] =
          <<[title |-> IF t.hasTitle THEN t.title ELSE @[1].title,
             content |-> t.content,
             wordCount |-> countWords(t.content)]>>]

\* updatedAt: new Date() makes the updated row the newest.
Touch(store, order, id) ==
  IF store[id] = <<>> THEN order ELSE <<id>> \o RemoveId(order, id)

\* A patch that also puts the saved entry first, as a reload of the list
\* (sorted by updatedAt) would show it.
PatchSaved_MovesToFront(list, t) ==
  LET at == { k \in 1..Len(list) : list[k].id = t.id }
  IN IF at = {} THEN list
     ELSE <<[list[Min(at)] EXCEPT !.content = t.content, !.title = t.title]>>
            \o Without(list, Min(at))

\* documents.update(docs => ...) of the timer callback: the entry of the saved
\* document gets the content and the derived title.
PatchSaved(list, t) ==
  [k \in 1..Len(list) |->
     IF list[k].id = t.id
       THEN [list[k] EXCEPT !.content = t.content, !.title = t.title]
       ELSE list[k]]

\* documents.update(docs => ...) of saveNow: the entry gets the content.
PatchContent(list, t) ==
  [k \in 1..Len(list) |->
     IF list[k].id = t.id THEN [list[k] EXCEPT !.content = t.content]
     ELSE list[k]]

\* -------------------------------------------------------------- operations

\* updateContent(content): the optimistic update, then the debounce.
UpdateContent(content) ==
  /\ currentDocument # <<>>
  /\ LET doc == currentDocument[1]
         newTitle == TitleOf[content]
         titleChanged == newTitle # doc.title
         cleared == ClearTimeout(timers, saveTimeout)
     IN /\ FreeHandles(cleared) # {}
        /\ currentDocument' = <<[doc EXCEPT !.content = content, !.title = newTitle]>>
        /\ saveStatus' = "unsaved"
        /\ saveTimeout' = NewHandle(cleared)
        /\ timers' = [cleared EXCEPT ![NewHandle(cleared)] =
                        <<Callback(doc, content, newTitle, titleChanged)>>]
  /\ uncaught' = FALSE
  /\ obs' = [issued |-> <<>>, sinceFail |-> FALSE, lateWrites |-> obs.lateWrites]
  /\ UNCHANGED << currentDocumentId, documents, tasks, db, dbOrder, nextId >>
  /\ UNCHANGED evars
  /\ UNCHANGED svars
  /\ UNCHANGED ivars

\* Time passes: every pending timer comes TickMs closer to being due.
Tick ==
  /\ \E h \in Pending(timers) : timers[h][1].remaining > 0
  /\ timers' = [h \in 1..MaxTimers |->
                  IF timers[h] = <<>> THEN <<>>
                  ELSE <<[timers[h][1] EXCEPT !.remaining =
                            IF @ > TickMs THEN @ - TickMs ELSE 0]>>]
  /\ uncaught' = FALSE
  /\ UNCHANGED << currentDocument, currentDocumentId, documents, saveStatus,
                  saveTimeout, tasks, db, dbOrder, nextId, obs >>
  /\ UNCHANGED evars
  /\ UNCHANGED svars
  /\ UNCHANGED ivars

\* A callback that starts its write without announcing it.
TimerFire_NoSaving(h) ==
  /\ timers[h] # <<>>
  /\ timers[h][1].remaining = 0
  /\ Len(tasks) < MaxTasks
  /\ LET cb == timers[h][1]
     IN /\ tasks' = Append(tasks, Task("timer", "update", cb.id, cb.content,
                                       cb.newTitle, cb.titleChanged))
        /\ obs' = [obs EXCEPT !.issued = Append(@, cb.content)]
  /\ timers' = [timers EXCEPT ![h] = <<>>]
  /\ uncaught' = FALSE
  /\ UNCHANGED << currentDocument, currentDocumentId, documents, saveStatus,
                  saveTimeout, db, dbOrder, nextId >>
  /\ UNCHANGED evars
  /\ UNCHANGED svars
  /\ UNCHANGED ivars

\* The debounce callback runs up to its await: 'saving', then updateDocument.
TimerFire(h) ==
  /\ timers[h] # <<>>
  /\ timers[h][1].remaining = 0
  /\ Len(tasks) < MaxTasks
  /\ LET cb == timers[h][1]
     IN /\ tasks' = Append(tasks, Task("timer", "update", cb.id, cb.content,
                                       cb.newTitle, cb.titleChanged))
        /\ obs' = [obs EXCEPT !.issued = Append(@, cb.content)]
  /\ timers' = [timers EXCEPT ![h] = <<>>]
  /\ saveStatus' = "saving"
  /\ uncaught' = FALSE
  /\ UNCHANGED << currentDocument, currentDocumentId, documents, saveTimeout,
                  db, dbOrder, nextId >>
  /\ UNCHANGED evars
  /\ UNCHANGED svars
  /\ UNCHANGED ivars

\* saveNow(): clears the timer; with a current document, 'saving' and
\* updateDocument(doc.id, {content: doc.content}).
SaveNow ==
  /\ timers' = ClearTimeout(timers, saveTimeout)
  /\ IF currentDocument = <<>>
       THEN UNCHANGED << tasks, saveStatus >>
       ELSE /\ Len(tasks) < MaxTasks
            /\ tasks' = Append(tasks, Task("saveNow", "update", currentDocument[1].id,
                                           currentDocument[1].content, <<>>, FALSE))
            /\ saveStatus' = "saving"
  /\ uncaught' = FALSE
  /\ obs' = [obs EXCEPT !.sinceFail = FALSE]
  /\ UNCHANGED << currentDocument, currentDocumentId, documents, saveTimeout,
                  db, dbOrder, nextId >>
  /\ UNCHANGED evars
  /\ UNCHANGED svars
  /\ UNCHANGED ivars

\* doc.content with its first line replaced by the title (or the title put in
\* front), as updateTitle computes newContent.
WithTitle(content, title) ==
  IF Trim(content[1]) # <<>>
    THEN [content EXCEPT ![1] = title]
  ELSE IF \A k \in 1..Len(content) : Trim(content[k]) = <<>>
    THEN <<title, <<>> >>
  ELSE <<title>> \o content

\* updateTitle(title) up to its first await.
UpdateTitle(title) ==
  /\ currentDocument # <<>>
  /\ Len(tasks) < MaxTasks
  /\ LET doc == currentDocument[1]
         newContent == WithTitle(doc.content, title)
     IN /\ currentDocument' = <<[doc EXCEPT !.title = title, !.content = newContent]>>
        /\ tasks' = Append(tasks, Task("title", "update", doc.id, newContent, title, TRUE))
  /\ uncaught' = FALSE
  /\ UNCHANGED << currentDocumentId, documents, saveStatus, saveTimeout, timers,
                  db, dbOrder, nextId, obs >>
  /\ UNCHANGED evars
  /\ UNCHANGED svars
  /\ UNCHANGED ivars

\* "await updateDocument(...)" resolves. updateDocument reads the row
\* (db.documents.get) and, if it is there, updates it (db.documents.update);
\* the read changes nothing and the update leaves a missing key alone, so the
\* two awaits are one step here. Then the caller goes on: the timer callback
\* and saveNow patch the list and set 'saved'; updateTitle calls loadDocuments.
UpdateDocumentDone(i) ==
  /\ i \in 1..Len(tasks)
  /\ tasks[i].pc = "update"
  /\ LET t == tasks[i]
     IN /\ db' = DbUpdate(db, t)
        /\ dbOrder' = Touch(db, dbOrder, t.id)
        /\ IF t.kind = "timer"
             THEN /\ documents' = PatchSaved(documents, t)
                  /\ saveStatus' = "saved"
                  /\ tasks' = Without(tasks, i)
           ELSE IF t.kind = "saveNow"
             THEN /\ documents' = PatchContent(documents, t)
                  /\ saveStatus' = "saved"
                  /\ tasks' = Without(tasks, i)
           ELSE /\ tasks' = [tasks EXCEPT ![i].pc = "list"]
                /\ UNCHANGED << documents, saveStatus >>
        /\ obs' = [obs EXCEPT !.lateWrites =
                     IF t.kind = "timer" /\ db[t.id] = <<>>
                       THEN @ \cup {t.id} ELSE @]
  /\ uncaught' = FALSE
  /\ UNCHANGED << currentDocument, currentDocumentId, saveTimeout, timers,
                  nextId >>
  /\ UNCHANGED evars
  /\ UNCHANGED svars
  /\ UNCHANGED ivars

\* A rejection nothing catches: the status stays as the callback left it.
UpdateDocumentFail_NoCatch(i) ==
  /\ i \in 1..Len(tasks)
  /\ tasks[i].pc = "update"
  /\ tasks' = Without(tasks, i)
  /\ uncaught' = TRUE
  /\ UNCHANGED << currentDocument, currentDocumentId, documents, saveStatus,
                  saveTimeout, timers, db, dbOrder, nextId, obs >>
  /\ UNCHANGED evars
  /\ UNCHANGED svars
  /\ UNCHANGED ivars

\* A catch that tries the write again.
UpdateDocumentFail_Retry(i) ==
  /\ i \in 1..Len(tasks)
  /\ tasks[i].pc = "update"
  /\ IF tasks[i].kind \in SaveKinds
       THEN /\ saveStatus' = "unsaved"
            /\ uncaught' = FALSE
            /\ obs' = [obs EXCEPT !.sinceFail = TRUE]
            /\ UNCHANGED tasks
       ELSE /\ uncaught' = TRUE
            /\ tasks' = Without(tasks, i)
            /\ UNCHANGED << saveStatus, obs >>
  /\ UNCHANGED << currentDocument, currentDocumentId, documents, saveTimeout,
                  timers, db, dbOrder, nextId >>
  /\ UNCHANGED evars
  /\ UNCHANGED svars
  /\ UNCHANGED ivars

\* "await updateDocument(...)" rejects (one of its store calls failed, nothing
\* was written): the catch of the timer callback and of saveNow sets
\* 'unsaved'; updateTitle has no catch.
UpdateDocumentFail(i) ==
  /\ i \in 1..Len(tasks)
  /\ tasks[i].pc = "update"
  /\ tasks' = Without(tasks, i)
  /\ IF tasks[i].kind \in SaveKinds
       THEN /\ saveStatus' = "unsaved"
            /\ uncaught' = FALSE
            /\ obs' = [obs EXCEPT !.sinceFail = TRUE]
       ELSE /\ uncaught' = TRUE
            /\ UNCHANGED << saveStatus, obs >>
  /\ UNCHANGED << currentDocument, currentDocumentId, documents, saveTimeout,
                  timers, db, dbOrder, nextId >>
  /\ UNCHANGED evars
  /\ UNCHANGED svars
  /\ UNCHANGED ivars

\* Ids the tasks in flight may still ask the auto-increment for.
Creators == { i \in 1..Len(tasks) : tasks[i].pc \in {"del", "create"}
                                    \/ (tasks[i].pc = "list" /\ tasks[i].kind = "delete") }

\* loadDocument(id) up to its await (a click on an entry of the list).
LoadDocument(id) ==
  /\ \E k \in 1..Len(documents) : documents[k].id = id
  /\ Len(tasks) < MaxTasks
  /\ tasks' = Append(tasks, Task("load", "getdoc", id, EmptyContent, <<>>, FALSE))
  /\ uncaught' = FALSE
  /\ UNCHANGED << currentDocument, currentDocumentId, documents, saveStatus,
                  saveTimeout, timers, db, dbOrder, nextId, obs >>
  /\ UNCHANGED evars
  /\ UNCHANGED svars
  /\ UNCHANGED ivars

\* "const doc = await getDocument(id); if (doc) {...}" of loadDocument.
GetDocumentDone(i) ==
  /\ i \in 1..Len(tasks)
  /\ tasks[i].pc = "getdoc"
  /\ IF db[tasks[i].id] # <<>>
       THEN /\ currentDocument' = <<DocOf(db, tasks[i].id)>>
            /\ currentDocumentId' = tasks[i].id
       ELSE UNCHANGED << currentDocument, currentDocumentId >>
  /\ tasks' = Without(tasks, i)
  /\ uncaught' = FALSE
  /\ UNCHANGED << documents, saveStatus, saveTimeout, timers, db, dbOrder,
                  nextId, obs >>
  /\ UNCHANGED evars
  /\ UNCHANGED svars
  /\ UNCHANGED ivars

\* deleteCurrentDocument() up to its first await.
DeleteCurrentDocument ==
  /\ currentDocument # <<>>
  /\ Len(tasks) < MaxTasks
  /\ nextId + Cardinality(Creators) <= MaxDocId
  /\ tasks' = Append(tasks, Task("delete", "del", currentDocument[1].id,
                                 EmptyContent, <<>>, FALSE))
  /\ uncaught' = FALSE
  /\ UNCHANGED << currentDocument, currentDocumentId, documents, saveStatus,
                  saveTimeout, timers, db, dbOrder, nextId, obs >>
  /\ UNCHANGED evars
  /\ UNCHANGED svars
  /\ UNCHANGED ivars

\* "await deleteDocument(doc.id)" resolves (the row is gone; the history
\* table it also clears is not part of this model), then the current document
\* is set to null and loadDocuments is called.
DeleteDocumentDone(i) ==
  /\ i \in 1..Len(tasks)
  /\ tasks[i].pc = "del"
  /\ db' = [db EXCEPT ![tasks[i].id] = <<>>]
  /\ dbOrder' = RemoveId(dbOrder, tasks[i].id)
  /\ currentDocument' = <<>>
  /\ currentDocumentId' = 0
  /\ tasks' = [tasks EXCEPT ![i].pc = "list"]
  /\ uncaught' = FALSE
  /\ UNCHANGED << documents, saveStatus, saveTimeout, timers, nextId, obs >>
  /\ UNCHANGED evars
  /\ UNCHANGED svars
  /\ UNCHANGED ivars

\* newDocument() up to its first await (the sidebar's button).
NewDocument ==
  /\ Len(tasks) < MaxTasks
  /\ nextId + Cardinality(Creators) <= MaxDocId
  /\ tasks' = Append(tasks, Task("new", "create", 0, EmptyContent, <<>>, FALSE))
  /\ uncaught' = FALSE
  /\ UNCHANGED << currentDocument, currentDocumentId, documents, saveStatus,
                  saveTimeout, timers, db, dbOrder, nextId, obs >>
  /\ UNCHANGED evars
  /\ UNCHANGED svars
  /\ UNCHANGED ivars

\* "const id = await createDocument('Untitled', '')" resolves, then
\* loadDocuments is called.
CreateDocumentDone(i) ==
  /\ i \in 1..Len(tasks)
  /\ tasks[i].pc = "create"
  /\ nextId <= MaxDocId
  /\ db' = [db EXCEPT ![nextId] = <<[title |-> Untitled, content |-> EmptyContent,
                                     wordCount |-> countWords(EmptyContent)]>>]
  /\ dbOrder' = <<nextId>> \o dbOrder
  /\ nextId' = nextId + 1
  /\ tasks' = [tasks EXCEPT ![i].pc = "list", ![i].id = nextId]
  /\ uncaught' = FALSE
  /\ UNCHANGED << currentDocument, currentDocumentId, documents, saveStatus,
                  saveTimeout, timers, obs >>
  /\ UNCHANGED evars
  /\ UNCHANGED svars
  /\ UNCHANGED ivars

\* "await loadDocuments()" resolves: the list is set from getAllDocuments.
\* updateTitle returns; deleteCurrentDocument loads the first entry, or calls
\* newDocument when there is none; newDocument loads the document it created.
LoadDocumentsDone(i) ==
  /\ i \in 1..Len(tasks)
  /\ tasks[i].pc = "list"
  /\ documents' = ListOf(db, dbOrder)
  /\ tasks' =
       IF tasks[i].kind = "title" THEN Without(tasks, i)
       ELSE IF tasks[i].kind = "new" THEN [tasks EXCEPT ![i].pc = "getdoc"]
       ELSE IF dbOrder # <<>>
         THEN [tasks EXCEPT ![i].pc = "getdoc", ![i].id = dbOrder[1]]
       ELSE [tasks EXCEPT ![i].pc = "create", ![i].kind = "new"]
  /\ uncaught' = FALSE
  /\ UNCHANGED << currentDocument, currentDocumentId, saveStatus, saveTimeout,
                  timers, db, dbOrder, nextId, obs >>
  /\ UNCHANGED evars
  /\ UNCHANGED svars
  /\ UNCHANGED ivars

\* ---------------------------------------------------- the editor: focus mode

\* getBlockIndex(proseMirror, topLevelBlock) for the root's child at position
\* k: its index among the children that match the selector, or -1.
getBlockIndex(r, k) ==
  IF r[k] \in BlockTags
    THEN Cardinality({ j \in 1..(k - 1) : r[j] \in BlockTags })
    ELSE -1

\* The selection is in the child whose index applyFocusActiveStyle recorded.
SameIndex == cursor # 0 /\ getBlockIndex(root, cursor) = lastActiveBlockIndex

\* applyFocusActiveStyle without "if (blockIndex === lastActiveBlockIndex)
\* return".
applyFocusActiveStyle_Always(enabled) ==
  IF ~enabled \/ cursor = 0
    THEN /\ UNCHANGED focusVars
         /\ styleTouched' = FALSE
    ELSE LET blockIndex == getBlockIndex(root, cursor)
         IN /\ lastActiveBlockIndex' = blockIndex
            /\ focusModeStyleEl' = TRUE
            /\ headStyles' = IF focusModeStyleEl THEN headStyles ELSE headStyles + 1
            /\ styleRule' = IF blockIndex >= 0 THEN blockIndex + 1
                            ELSE IF focusModeStyleEl THEN styleRule ELSE 0
            /\ styleTouched' = (~focusModeStyleEl \/ blockIndex >= 0)

\* applyFocusActiveStyle without "if (!focusModeStyleEl)": every change of
\* index appends a new style element.
applyFocusActiveStyle_AlwaysCreates(enabled) ==
  IF ~enabled \/ cursor = 0
    THEN /\ UNCHANGED focusVars
         /\ styleTouched' = FALSE
    ELSE LET blockIndex == getBlockIndex(root, cursor)
         IN IF blockIndex = lastActiveBlockIndex
              THEN /\ UNCHANGED focusVars
                   /\ styleTouched' = FALSE
              ELSE /\ lastActiveBlockIndex' = blockIndex
                   /\ focusModeStyleEl' = TRUE
                   /\ headStyles' = headStyles + 1
                   /\ styleRule' = IF blockIndex >= 0 THEN blockIndex + 1 ELSE 0
                   /\ styleTouched' = TRUE

\* applyFocusActiveStyle(), with `enabled` what get(settings).focusMode
\* returns at the call: nothing without focus mode or without a selection
\* inside the root; nothing when the index is the recorded one; else the
\* index is recorded, the style element created if there is none, and for an
\* index >= 0 its text set to the rule for nth-child(index + 1).
applyFocusActiveStyle(enabled) ==
  IF ~enabled \/ cursor = 0
    THEN /\ UNCHANGED focusVars
         /\ styleTouched' = FALSE
    ELSE LET blockIndex == getBlockIndex(root, cursor)
         IN IF blockIndex = lastActiveBlockIndex
              THEN /\ UNCHANGED focusVars
                   /\ styleTouched' = FALSE
              ELSE /\ lastActiveBlockIndex' = blockIndex
                   /\ focusModeStyleEl' = TRUE
                   /\ headStyles' = IF focusModeStyleEl THEN headStyles
                                    ELSE headStyles + 1
                   /\ styleRule' = IF blockIndex >= 0 THEN blockIndex + 1
                                   ELSE IF focusModeStyleEl THEN styleRule ELSE 0
                   /\ styleTouched' = (~focusModeStyleEl \/ blockIndex >= 0)

\* The frames whose handle typewriterAnimationFrame holds (for the history):
\* what cancelTypewriterAnimation cancels, and, after a run of
\* animateTypewriterScroll, what that run has requested.
HeldFrames == IF typewriterAnimationFrame THEN 1 ELSE 0

\* The name of stopFocusModeLoop when a call finds no style element, and of
\* cancelTypewriterAnimation when a call finds no frame requested (for the
\* history).
IdleStop == IF focusModeStyleEl THEN {} ELSE {"stopFocusModeLoop"}

IdleCancel ==
  IF typewriterAnimationFrame THEN {} ELSE {"cancelTypewriterAnimation"}

\* A stopFocusModeLoop without its "if (focusModeStyleEl)".
stopFocusModeLoop_Unguarded ==
  /\ lastActiveBlockIndex' = -1
  /\ focusModeStyleEl' = FALSE
  /\ headStyles' = headStyles - 1
  /\ styleRule' = 0
  /\ styleTouched' = FALSE

\* A stopFocusModeLoop that forgets the index and leaves the element.
stopFocusModeLoop_KeepsStyle ==
  /\ lastActiveBlockIndex' = -1
  /\ UNCHANGED << focusModeStyleEl, headStyles, styleRule >>
  /\ styleTouched' = FALSE

\* stopFocusModeLoop(): the index is forgotten and the style element, if
\* any, removed from the document.
stopFocusModeLoop ==
  /\ lastActiveBlockIndex' = -1
  /\ focusModeStyleEl' = FALSE
  /\ headStyles' = IF focusModeStyleEl THEN headStyles - 1 ELSE headStyles
  /\ styleRule' = IF focusModeStyleEl THEN 0 ELSE styleRule
  /\ styleTouched' = FALSE

\* cancelTypewriterAnimation()
cancelTypewriterAnimation ==
  /\ typewriterAnimationFrame' = FALSE
  /\ isTypewriterAnimating' = FALSE

\* The focus-mode setting is set to b (b the value it has: another setting
\* changed). A mounted component's reactive block then runs
\* startFocusModeLoop or stopFocusModeLoop.
SetFocusMode(b) ==
  /\ focusMode' = b
  /\ IF ~mounted
       THEN /\ UNCHANGED focusVars
            /\ styleTouched' = FALSE
            /\ UNCHANGED eobs
       ELSE IF b
         THEN /\ applyFocusActiveStyle(b)
              /\ eobs' = [eobs EXCEPT !.synced = TRUE,
                                      !.repeat = @ \/ SameIndex,
                                      !.lateFrame = FALSE]
         ELSE /\ stopFocusModeLoop
              /\ eobs' = [eobs EXCEPT !.synced = FALSE, !.repeat = FALSE,
                                      !.idleCalls = @ \cup IdleStop]
  /\ UNCHANGED << mounted, typewriterMode, root, cursor, now >>
  /\ UNCHANGED throttleVars
  /\ UNCHANGED scrollVars
  /\ UNCHANGED vars
  /\ UNCHANGED svars
  /\ UNCHANGED ivars

\* The selection moves to the child at position k (0: out of the root).
MoveCursor(k) ==
  /\ mounted
  /\ k \in 0..Len(root)
  /\ k # cursor
  /\ k # 0 => root[k] \in CursorTags
  /\ cursor' = k
  /\ styleTouched' = FALSE
  /\ eobs' = [eobs EXCEPT !.synced = FALSE, !.repeat = FALSE]
  /\ UNCHANGED << mounted, focusMode, typewriterMode, root, now >>
  /\ UNCHANGED focusVars
  /\ UNCHANGED throttleVars
  /\ UNCHANGED scrollVars
  /\ UNCHANGED vars
  /\ UNCHANGED svars
  /\ UNCHANGED ivars

\* An edit changes the root's children to r, with the selection in child k.
EditRoot(r, k) ==
  /\ mounted
  /\ r # root
  /\ k \in 1..Len(r)
  /\ r[k] \in CursorTags
  /\ root' = r
  /\ cursor' = k
  /\ styleTouched' = FALSE
  /\ eobs' = [eobs EXCEPT !.synced = FALSE, !.repeat = FALSE]
  /\ UNCHANGED << mounted, focusMode, typewriterMode, now >>
  /\ UNCHANGED focusVars
  /\ UNCHANGED throttleVars
  /\ UNCHANGED scrollVars
  /\ UNCHANGED vars
  /\ UNCHANGED svars
  /\ UNCHANGED ivars

\* What onDestroy does to the work and the resources that exist, in the
\* order of its statements: cancelTypewriterAnimation(), stopFocusModeLoop(),
\* then cancelAnimationFrame(selectionChangeRaf).
TeardownOrder ==
  (IF typewriterAnimationFrame THEN <<"cancelTypewriterFrame">> ELSE <<>>)
    \o (IF focusModeStyleEl THEN <<"releaseStyle">> ELSE <<>>)
    \o (IF selectionChangeRaf # <<>> THEN <<"cancelSelectionFrame">> ELSE <<>>)

\* onDestroy: the listener is removed, the animation cancelled, the style
\* element removed, the trailing frame cancelled and the editor that
\* editorInstance refers to destroyed (the variable keeps referring to it).
Destroy ==
  /\ mounted
  /\ mounted' = FALSE
  /\ cancelTypewriterAnimation
  /\ stopFocusModeLoop
  /\ selectionChangeRaf' = <<>>
  /\ UNCHANGED << focusMode, typewriterMode, root, cursor, now,
                  lastSelectionChangeTime, scrollTop, currentScrollTarget,
                  typewriterAnimationStartTime, lastCursorY >>
  /\ eobs' = [eobs EXCEPT !.synced = FALSE, !.repeat = FALSE,
                          !.frames = IF selectionChangeRaf = <<>> THEN @ ELSE @ - 1,
                          !.chains = @ - HeldFrames,
                          !.idleCalls = @ \cup IdleStop \cup IdleCancel,
                          !.teardown = TeardownOrder]
  /\ editors' = Destroyed(editors, editorInstance)
  /\ UNCHANGED << editorInstance, creating, lastDocumentId, madeEditors >>
  /\ UNCHANGED vars
  /\ UNCHANGED typewriterRaf
  /\ UNCHANGED svars

\* --------------------------------------------- the editor: its instances

\* initEditor(content) up to its await: the editor the variable refers to is
\* destroyed and the variable set to null, then the creation of a new
\* editor with the content as its default value is awaited.
initEditor(doc, content) ==
  /\ editors' = Destroyed(editors, editorInstance)
  /\ editorInstance' = 0
  /\ creating' = Append(creating, [doc |-> doc, content |-> content])
  /\ UNCHANGED madeEditors

\* The component's reactive block after the stores have changed: with a
\* current document whose id is not lastDocumentId, the id is recorded and
\* initEditor called with the document's content (the call is not awaited).
DocumentChanged ==
  /\ mounted
  /\ currentDocument # <<>>
  /\ currentDocumentId # lastDocumentId
  /\ madeEditors + Len(creating) < MaxEditors
  /\ lastDocumentId' = currentDocumentId
  /\ initEditor(currentDocumentId, currentDocument[1].content)
  /\ UNCHANGED vars
  /\ UNCHANGED evars
  /\ UNCHANGED svars

\* "editorInstance = await Editor.make()...create()" resolves for the oldest
\* call awaiting it: the new editor is assigned to the variable.
CreateEditorDone ==
  /\ creating # <<>>
  /\ madeEditors' = madeEditors + 1
  /\ editors' = editors \cup {[id |-> madeEditors + 1, doc |-> Head(creating).doc,
                                content |-> Head(creating).content]}
  /\ editorInstance' = madeEditors + 1
  /\ creating' = Tail(creating)
  /\ UNCHANGED lastDocumentId
  /\ UNCHANGED vars
  /\ UNCHANGED evars
  /\ UNCHANGED svars

\* ------------------------------------------- the editor: selection throttle

\* The full recomputation: detectActiveFormats(), and applyFocusActiveStyle()
\* with focus mode on.
Recompute(trailing) ==
  /\ applyFocusActiveStyle(focusMode)
  /\ eobs' = [eobs EXCEPT !.lateFrame = @ \/ (trailing /\ eobs.rafInFocus /\ ~focusMode), !.start = IF @ = -1 THEN now ELSE @,
                          !.runs = @ + 1,
                          !.lastRun = now,
                          !.frames = IF trailing THEN @ - 1 ELSE @,
                          !.unprocessed = FALSE,
                          !.synced = IF focusMode THEN TRUE ELSE @,
                          !.repeat = @ \/ (focusMode /\ SameIndex)]

\* A handleSelectionChange that drops the events it throttles.
handleSelectionChange_NoTrailing ==
  /\ mounted
  /\ now + ClockMs <= MaxNow
  /\ IF now - lastSelectionChangeTime < SELECTION_CHANGE_THROTTLE_MS
       THEN /\ UNCHANGED throttleVars
            /\ UNCHANGED focusVars
            /\ styleTouched' = FALSE
            /\ eobs' = [eobs EXCEPT !.start = IF @ = -1 THEN now ELSE @,
                                    !.unprocessed = TRUE]
       ELSE /\ lastSelectionChangeTime' = now
            /\ UNCHANGED selectionChangeRaf
            /\ Recompute(FALSE)
  /\ UNCHANGED << mounted, focusMode, typewriterMode, root, cursor, now >>
  /\ UNCHANGED scrollVars
  /\ UNCHANGED vars
  /\ UNCHANGED svars
  /\ UNCHANGED ivars

\* A handleSelectionChange that requests a trailing frame for every event it
\* throttles, keeping the handle of the last one.
handleSelectionChange_AlwaysRequests ==
  /\ mounted
  /\ now + ClockMs <= MaxNow
  /\ IF now - lastSelectionChangeTime < SELECTION_CHANGE_THROTTLE_MS
       THEN /\ selectionChangeRaf' = <<now>>
            /\ UNCHANGED lastSelectionChangeTime
            /\ UNCHANGED focusVars
            /\ styleTouched' = FALSE
            /\ eobs' = [eobs EXCEPT !.start = IF @ = -1 THEN now ELSE @,
                                    !.unprocessed = TRUE,
                                    !.frames = @ + 1,
                                    !.rafInFocus = focusMode]
       ELSE /\ lastSelectionChangeTime' = now
            /\ UNCHANGED selectionChangeRaf
            /\ Recompute(FALSE)
  /\ UNCHANGED << mounted, focusMode, typewriterMode, root, cursor, now >>
  /\ UNCHANGED scrollVars
  /\ UNCHANGED vars
  /\ UNCHANGED svars
  /\ UNCHANGED ivars

\* handleSelectionChange(), the selectionchange listener: within the
\* throttle period of the last recomputation one trailing frame callback is
\* requested (if none is); else the recomputation runs at once.
handleSelectionChange ==
  /\ mounted
  /\ now + ClockMs <= MaxNow
  /\ IF now - lastSelectionChangeTime < SELECTION_CHANGE_THROTTLE_MS
       THEN /\ selectionChangeRaf' =
                 IF selectionChangeRaf = <<>> THEN <<now>> ELSE selectionChangeRaf
            /\ UNCHANGED lastSelectionChangeTime
            /\ UNCHANGED focusVars
            /\ styleTouched' = FALSE
            /\ eobs' = [eobs EXCEPT !.start = IF @ = -1 THEN now ELSE @,
                                    !.unprocessed = TRUE,
                                    !.frames = IF selectionChangeRaf = <<>>
                                                 THEN @ + 1 ELSE @,
                                    !.rafInFocus = IF selectionChangeRaf = <<>>
                                                     THEN focusMode ELSE @]
       ELSE /\ lastSelectionChangeTime' = now
            /\ UNCHANGED selectionChangeRaf
            /\ Recompute(FALSE)
  /\ UNCHANGED << mounted, focusMode, typewriterMode, root, cursor, now >>
  /\ UNCHANGED scrollVars
  /\ UNCHANGED vars
  /\ UNCHANGED svars
  /\ UNCHANGED ivars

\* A trailing frame callback that marks the active block in the document
\* itself, which the store sees as an edit.
SelectionFrame_TouchesDocument ==
  /\ selectionChangeRaf # <<>>
  /\ now > selectionChangeRaf[1]
  /\ selectionChangeRaf' = <<>>
  /\ lastSelectionChangeTime' = now
  /\ Recompute(TRUE)
  /\ UNCHANGED << mounted, focusMode, typewriterMode, root, cursor, now >>
  /\ UNCHANGED scrollVars
  /\ saveStatus' = "unsaved"
  /\ UNCHANGED << currentDocument, currentDocumentId, documents, saveTimeout,
                  timers, tasks, db, dbOrder, nextId, uncaught, obs >>
  /\ UNCHANGED svars
  /\ UNCHANGED ivars

\* The trailing frame callback runs, at a later clock reading than its
\* request.
SelectionFrame ==
  /\ selectionChangeRaf # <<>>
  /\ now > selectionChangeRaf[1]
  /\ selectionChangeRaf' = <<>>
  /\ lastSelectionChangeTime' = now
  /\ Recompute(TRUE)
  /\ UNCHANGED << mounted, focusMode, typewriterMode, root, cursor, now >>
  /\ UNCHANGED scrollVars
  /\ UNCHANGED vars
  /\ UNCHANGED svars
  /\ UNCHANGED ivars

\* The clock advances by step, up to limit.
AdvanceClock(step, limit) ==
  /\ now + step <= limit
  /\ now' = now + step
  /\ styleTouched' = FALSE
  /\ UNCHANGED << mounted, focusMode, typewriterMode, root, cursor, eobs >>
  /\ UNCHANGED focusVars
  /\ UNCHANGED throttleVars
  /\ UNCHANGED scrollVars
  /\ UNCHANGED vars
  /\ UNCHANGED svars
  /\ UNCHANGED ivars

\* --------------------------------------------- the editor: typewriter mode

Abs(x) == IF x < 0 THEN -x ELSE x

\* An assignment to scrollArea.scrollTop: the browser keeps the value within
\* what can be scrolled.
Clamp(v) == IF v < 0 THEN 0 ELSE IF v > MaxScrollTop THEN MaxScrollTop ELSE v

\* diff * 0.30, to the tenth of a pixel (toward zero).
EaseStep(diff) ==
  IF diff >= 0 THEN (diff * 3) \div 10 ELSE -(((-diff) * 3) \div 10)

\* "Math.abs(diff) < 0.5": the animation has arrived.
Arrived(target, pos) == 2 * Abs(target - pos) < Px

\* animateTypewriterScroll without its time limit.
animateTypewriterScroll_NoLimit(start, target) ==
  IF Arrived(target, scrollTop)
    THEN /\ isTypewriterAnimating' = FALSE
         /\ typewriterAnimationFrame' = FALSE
         /\ UNCHANGED scrollTop
    ELSE /\ isTypewriterAnimating' = TRUE
         /\ scrollTop' = Clamp(scrollTop + EaseStep(target - scrollTop))
         /\ typewriterAnimationFrame' = TRUE

\* animateTypewriterScroll moving a fixed 3 px a frame instead of a fraction
\* of the remaining distance.
animateTypewriterScroll_FixedStep(start, target) ==
  IF now - start > TYPEWRITER_MAX_ANIMATION_MS
    THEN /\ isTypewriterAnimating' = FALSE
         /\ typewriterAnimationFrame' = FALSE
         /\ UNCHANGED scrollTop
    ELSE IF Arrived(target, scrollTop)
      THEN /\ isTypewriterAnimating' = FALSE
           /\ typewriterAnimationFrame' = FALSE
           /\ UNCHANGED scrollTop
      ELSE /\ isTypewriterAnimating' = TRUE
           /\ scrollTop' = Clamp(scrollTop + (IF target > scrollTop
                                                THEN 3 * Px ELSE -(3 * Px)))
           /\ typewriterAnimationFrame' = TRUE

\* animateTypewriterScroll(), with the start time and the target it reads:
\* it stops once the task has run for more than the limit or has arrived;
\* else it moves 30% of the way and requests the next frame.
animateTypewriterScroll(start, target) ==
  IF now - start > TYPEWRITER_MAX_ANIMATION_MS
    THEN /\ isTypewriterAnimating' = FALSE
         /\ typewriterAnimationFrame' = FALSE
         /\ UNCHANGED scrollTop
    ELSE IF Arrived(target, scrollTop)
      THEN /\ isTypewriterAnimating' = FALSE
           /\ typewriterAnimationFrame' = FALSE
           /\ UNCHANGED scrollTop
      ELSE /\ isTypewriterAnimating' = TRUE
           /\ scrollTop' = Clamp(scrollTop + EaseStep(target - scrollTop))
           /\ typewriterAnimationFrame' = TRUE

\* The typewriter setting is set to b.
SetTypewriterMode(b) ==
  /\ b # typewriterMode
  /\ typewriterMode' = b
  /\ styleTouched' = FALSE
  /\ UNCHANGED << mounted, focusMode, root, cursor, now, eobs >>
  /\ UNCHANGED focusVars
  /\ UNCHANGED throttleVars
  /\ UNCHANGED scrollVars
  /\ UNCHANGED vars
  /\ UNCHANGED svars
  /\ UNCHANGED ivars

\* The user scrolls the area to v.
UserScroll(v) ==
  /\ mounted
  /\ v # scrollTop
  /\ scrollTop' = v
  /\ styleTouched' = FALSE
  /\ UNCHANGED << mounted, focusMode, typewriterMode, root, cursor, now, eobs,
                  currentScrollTarget, isTypewriterAnimating,
                  typewriterAnimationFrame, typewriterAnimationStartTime,
                  lastCursorY >>
  /\ UNCHANGED focusVars
  /\ UNCHANGED throttleVars
  /\ UNCHANGED vars
  /\ UNCHANGED typewriterRaf
  /\ UNCHANGED svars
  /\ UNCHANGED ivars

\* applyTypewriterMode as Editor.svelte's older variant has it: every move
\* is animated.
ApplyTypewriterMode_NoInstant(cy, forceInstant) ==
  /\ mounted
  /\ typewriterMode
  /\ now + TYPEWRITER_MAX_ANIMATION_MS + ScrollClockMs <= MaxScrollNow
  /\ LET cursorRelativeY == cy - scrollTop
         diff == cursorRelativeY - ViewHalf
     IN /\ lastCursorY' = cursorRelativeY
        /\ IF Abs(diff) > 2 * Px
             THEN /\ currentScrollTarget' = scrollTop + diff
                  /\ IF ~isTypewriterAnimating
                       THEN /\ typewriterAnimationStartTime' = now
                            /\ animateTypewriterScroll(now, scrollTop + diff)
                            /\ eobs' = [eobs EXCEPT !.taskStart = now,
                                                    !.timedOut = FALSE,
                                                    !.cancelled = FALSE,
                                                    !.chains = @ + HeldFrames']
                       ELSE UNCHANGED << scrollTop, isTypewriterAnimating,
                                         typewriterAnimationFrame,
                                         typewriterAnimationStartTime, eobs >>
             ELSE UNCHANGED << scrollTop, currentScrollTarget,
                               isTypewriterAnimating, typewriterAnimationFrame,
                               typewriterAnimationStartTime, eobs >>
  /\ styleTouched' = FALSE
  /\ UNCHANGED << mounted, focusMode, typewriterMode, root, cursor, now >>
  /\ UNCHANGED focusVars
  /\ UNCHANGED throttleVars
  /\ UNCHANGED vars
  /\ UNCHANGED typewriterRaf
  /\ UNCHANGED svars
  /\ UNCHANGED ivars

\* applyTypewriterMode without its "else if (!isTypewriterAnimating)": a
\* small move starts an animation also while one is running.
ApplyTypewriterMode_Restarts(cy, forceInstant) ==
  /\ mounted
  /\ typewriterMode
  /\ now + TYPEWRITER_MAX_ANIMATION_MS + ScrollClockMs <= MaxScrollNow
  /\ LET cursorRelativeY == cy - scrollTop
         diff == cursorRelativeY - ViewHalf
         cursorJump == Abs(cursorRelativeY - lastCursorY)
         shouldInstantScroll ==
           forceInstant \/ cursorJump > INSTANT_SCROLL_THRESHOLD * Px
     IN /\ lastCursorY' = cursorRelativeY
        /\ IF Abs(diff) > 2 * Px
             THEN /\ currentScrollTarget' = scrollTop + diff
                  /\ IF shouldInstantScroll
                       THEN /\ cancelTypewriterAnimation
                            /\ scrollTop' = Clamp(scrollTop + diff)
                            /\ UNCHANGED typewriterAnimationStartTime
                            /\ eobs' = [eobs EXCEPT !.cancelled =
                                                      @ \/ isTypewriterAnimating,
                                                    !.chains = @ - HeldFrames]
                       ELSE /\ typewriterAnimationStartTime' = now
                            /\ animateTypewriterScroll(now, scrollTop + diff)
                            /\ eobs' = [eobs EXCEPT !.taskStart = now,
                                                    !.timedOut = FALSE,
                                                    !.cancelled = FALSE,
                                                    !.chains = @ + HeldFrames']
             ELSE UNCHANGED << scrollTop, currentScrollTarget,
                               isTypewriterAnimating, typewriterAnimationFrame,
                               typewriterAnimationStartTime, eobs >>
  /\ styleTouched' = FALSE
  /\ UNCHANGED << mounted, focusMode, typewriterMode, root, cursor, now >>
  /\ UNCHANGED focusVars
  /\ UNCHANGED throttleVars
  /\ UNCHANGED vars
  /\ UNCHANGED typewriterRaf
  /\ UNCHANGED svars
  /\ UNCHANGED ivars

\* applyTypewriterMode without its deadband: any offset from the centre is
\* acted on.
ApplyTypewriterMode_NoDeadband(cy, forceInstant) ==
  /\ mounted
  /\ typewriterMode
  /\ now + TYPEWRITER_MAX_ANIMATION_MS + ScrollClockMs <= MaxScrollNow
  /\ LET cursorRelativeY == cy - scrollTop
         diff == cursorRelativeY - ViewHalf
         cursorJump == Abs(cursorRelativeY - lastCursorY)
         shouldInstantScroll ==
           forceInstant \/ cursorJump > INSTANT_SCROLL_THRESHOLD * Px
     IN /\ lastCursorY' = cursorRelativeY
        /\ IF Abs(diff) > 0
             THEN /\ currentScrollTarget' = scrollTop + diff
                  /\ IF shouldInstantScroll
                       THEN /\ cancelTypewriterAnimation
                            /\ scrollTop' = Clamp(scrollTop + diff)
                            /\ UNCHANGED typewriterAnimationStartTime
                            /\ eobs' = [eobs EXCEPT !.cancelled =
                                                      @ \/ isTypewriterAnimating,
                                                    !.chains = @ - HeldFrames]
                     ELSE IF ~isTypewriterAnimating
                       THEN /\ typewriterAnimationStartTime' = now
                            /\ animateTypewriterScroll(now, scrollTop + diff)
                            /\ eobs' = [eobs EXCEPT !.taskStart = now,
                                                    !.timedOut = FALSE,
                                                    !.cancelled = FALSE,
                                                    !.chains = @ + HeldFrames']
                       ELSE UNCHANGED << scrollTop, isTypewriterAnimating,
                                         typewriterAnimationFrame,
                                         typewriterAnimationStartTime, eobs >>
             ELSE UNCHANGED << scrollTop, currentScrollTarget,
                               isTypewriterAnimating, typewriterAnimationFrame,
                               typewriterAnimationStartTime, eobs >>
  /\ styleTouched' = FALSE
  /\ UNCHANGED << mounted, focusMode, typewriterMode, root, cursor, now >>
  /\ UNCHANGED focusVars
  /\ UNCHANGED throttleVars
  /\ UNCHANGED vars
  /\ UNCHANGED typewriterRaf
  /\ UNCHANGED svars
  /\ UNCHANGED ivars

\* applyTypewriterMode(forceInstant) past its early returns, with a collapsed
\* selection whose rectangle is cy down the document. Off-centre by more than
\* 2 px, the target is set; a jump of more than 30 px (or forceInstant)
\* scrolls at once and cancels the animation; else an animation task is
\* started unless one is running.
applyTypewriterMode(cy, forceInstant) ==
  LET cursorRelativeY == cy - scrollTop
      diff == cursorRelativeY - ViewHalf
      cursorJump == Abs(cursorRelativeY - lastCursorY)
      shouldInstantScroll ==
        forceInstant \/ cursorJump > INSTANT_SCROLL_THRESHOLD * Px
  IN /\ lastCursorY' = cursorRelativeY
     /\ IF Abs(diff) > 2 * Px
          THEN /\ currentScrollTarget' = scrollTop + diff
               /\ IF shouldInstantScroll
                    THEN /\ cancelTypewriterAnimation
                         /\ scrollTop' = Clamp(scrollTop + diff)
                         /\ UNCHANGED typewriterAnimationStartTime
                         /\ eobs' = [eobs EXCEPT !.cancelled =
                                                   @ \/ isTypewriterAnimating,
                                                 !.chains = @ - HeldFrames,
                                                 !.idleCalls = @ \cup IdleCancel]
                  ELSE IF ~isTypewriterAnimating
                    THEN /\ typewriterAnimationStartTime' = now
                         /\ animateTypewriterScroll(now, scrollTop + diff)
                         /\ eobs' = [eobs EXCEPT !.taskStart = now,
                                                 !.timedOut = FALSE,
                                                 !.cancelled = FALSE,
                                                 !.chains = @ + HeldFrames']
                    ELSE UNCHANGED << scrollTop, isTypewriterAnimating,
                                      typewriterAnimationFrame,
                                      typewriterAnimationStartTime, eobs >>
          ELSE UNCHANGED << scrollTop, currentScrollTarget,
                            isTypewriterAnimating, typewriterAnimationFrame,
                            typewriterAnimationStartTime, eobs >>

\* applyTypewriterMode(forceInstant) run in the mounted component with
\* typewriter mode on and a measurable cursor. The model follows a task for
\* the time limit and one clock step more, so none starts later.
ApplyTypewriterMode(cy, forceInstant) ==
  /\ mounted
  /\ typewriterMode
  /\ now + TYPEWRITER_MAX_ANIMATION_MS + ScrollClockMs <= MaxScrollNow
  /\ applyTypewriterMode(cy, forceInstant)
  /\ styleTouched' = FALSE
  /\ UNCHANGED << mounted, focusMode, typewriterMode, root, cursor, now >>
  /\ UNCHANGED focusVars
  /\ UNCHANGED throttleVars
  /\ UNCHANGED vars
  /\ UNCHANGED typewriterRaf
  /\ UNCHANGED svars
  /\ UNCHANGED ivars

\* The frame the animation requested: animateTypewriterScroll runs again.
AnimationFrame ==
  /\ typewriterAnimationFrame
  /\ animateTypewriterScroll(typewriterAnimationStartTime, currentScrollTarget)
  /\ eobs' = [eobs EXCEPT !.timedOut =
                            @ \/ (now - eobs.taskStart > TYPEWRITER_MAX_ANIMATION_MS),
                          !.chains = @ - 1 + HeldFrames']
  /\ styleTouched' = FALSE
  /\ UNCHANGED << mounted, focusMode, typewriterMode, root, cursor, now,
                  currentScrollTarget, typewriterAnimationStartTime, lastCursorY >>
  /\ UNCHANGED focusVars
  /\ UNCHANGED throttleVars
  /\ UNCHANGED vars
  /\ UNCHANGED typewriterRaf
  /\ UNCHANGED svars
  /\ UNCHANGED ivars

\* What applyTypewriterMode finds when it measures: "ok", or the early return
\* it takes: no scroll area under the wrapper, no range in the selection,
\* a range that is not collapsed, or a cursor rectangle of height 0.
Geometry == {"ok", "noScrollArea", "noRange", "notCollapsed", "zeroHeight"}

\* The content listener's frame request, "if ($settings.typewriterMode)
\* requestAnimationFrame(() => applyTypewriterMode())": the handle is
\* dropped. (The listener's updateContent call is UpdateContent.)
RequestTypewriterFrame ==
  /\ mounted
  /\ typewriterMode
  /\ typewriterRaf < MaxTypewriterRaf
  /\ typewriterRaf' = typewriterRaf + 1
  /\ styleTouched' = FALSE
  /\ UNCHANGED << mounted, focusMode, typewriterMode, root, cursor, now, eobs,
                  scrollTop, currentScrollTarget, isTypewriterAnimating,
                  typewriterAnimationFrame, typewriterAnimationStartTime,
                  lastCursorY >>
  /\ UNCHANGED focusVars
  /\ UNCHANGED throttleVars
  /\ UNCHANGED vars
  /\ UNCHANGED svars
  /\ UNCHANGED ivars

\* The requested callback with a cursor rectangle of height 0 taken as
\* measured.
TypewriterFrame_NoHeightCheck(g, cy) ==
  /\ typewriterRaf > 0
  /\ now + TYPEWRITER_MAX_ANIMATION_MS + ScrollClockMs <= MaxScrollNow
  /\ typewriterRaf' = typewriterRaf - 1
  /\ IF ~typewriterMode
       THEN UNCHANGED << scrollTop, currentScrollTarget, isTypewriterAnimating,
                         typewriterAnimationFrame, typewriterAnimationStartTime,
                         lastCursorY, eobs >>
       ELSE IF g \notin {"ok", "zeroHeight"}
         THEN /\ UNCHANGED << scrollTop, currentScrollTarget,
                              isTypewriterAnimating, typewriterAnimationFrame,
                              typewriterAnimationStartTime, lastCursorY >>
              /\ eobs' = [eobs EXCEPT !.unmeasured = TRUE]
         ELSE applyTypewriterMode(cy, FALSE)
  /\ styleTouched' = FALSE
  /\ UNCHANGED << mounted, focusMode, typewriterMode, root, cursor, now >>
  /\ UNCHANGED focusVars
  /\ UNCHANGED throttleVars
  /\ UNCHANGED vars
  /\ UNCHANGED svars
  /\ UNCHANGED ivars

\* The requested callback runs applyTypewriterMode(): nothing with the mode
\* off or without a measurable cursor (g), else as above with the cursor at
\* cy. Nothing cancels the request, so it also runs after onDestroy, on what
\* the document then has as its selection.
TypewriterFrame(g, cy) ==
  /\ typewriterRaf > 0
  /\ now + TYPEWRITER_MAX_ANIMATION_MS + ScrollClockMs <= MaxScrollNow
  /\ typewriterRaf' = typewriterRaf - 1
  /\ IF ~typewriterMode
       THEN UNCHANGED << scrollTop, currentScrollTarget, isTypewriterAnimating,
                         typewriterAnimationFrame, typewriterAnimationStartTime,
                         lastCursorY, eobs >>
       ELSE IF g # "ok"
         THEN /\ UNCHANGED << scrollTop, currentScrollTarget,
                              isTypewriterAnimating, typewriterAnimationFrame,
                              typewriterAnimationStartTime, lastCursorY >>
              /\ eobs' = [eobs EXCEPT !.unmeasured = TRUE]
         ELSE applyTypewriterMode(cy, FALSE)
  /\ styleTouched' = FALSE
  /\ UNCHANGED << mounted, focusMode, typewriterMode, root, cursor, now >>
  /\ UNCHANGED focusVars
  /\ UNCHANGED throttleVars
  /\ UNCHANGED vars
  /\ UNCHANGED svars
  /\ UNCHANGED ivars

\* One refresh of the display: FrameMs later the requested animation frame,
\* if any, runs (animateTypewriterScroll reads the clock FrameMs on, which is
\* the same as a start time FrameMs earlier).
DisplayFrame ==
  /\ now + FrameMs <= MaxScrollNow
  /\ now' = now + FrameMs
  /\ IF typewriterAnimationFrame
       THEN /\ animateTypewriterScroll(typewriterAnimationStartTime - FrameMs,
                                       currentScrollTarget)
            /\ eobs' = [eobs EXCEPT !.timedOut =
                          @ \/ (now' - eobs.taskStart > TYPEWRITER_MAX_ANIMATION_MS),
                                    !.chains = @ - 1 + HeldFrames']
       ELSE UNCHANGED << scrollTop, isTypewriterAnimating,
                         typewriterAnimationFrame, eobs >>
  /\ styleTouched' = FALSE
  /\ UNCHANGED << mounted, focusMode, typewriterMode, root, cursor,
                  currentScrollTarget, typewriterAnimationStartTime, lastCursorY >>
  /\ UNCHANGED focusVars
  /\ UNCHANGED throttleVars
  /\ UNCHANGED vars
  /\ UNCHANGED typewriterRaf
  /\ UNCHANGED svars
  /\ UNCHANGED ivars

\* A keystroke's applyTypewriterMode() once the previous animation task has
\* ended: one cursor move per task.
DriftEvent(cy) ==
  /\ ~isTypewriterAnimating
  /\ ApplyTypewriterMode(cy, FALSE)

\* ------------------------------------------------------ the settings store

\* The page is opened in a browser whose store holds saved and whose colour
\* scheme preference is t: main.ts sets data-theme before the application
\* mounts (nothing writes localStorage's 'theme').
OpenPage(saved, t) ==
  /\ settingsPc = "closed"
  /\ settingsPc' = "main"
  /\ settingsDb' = saved
  /\ dataTheme' = t
  /\ UNCHANGED << settings, settingsWrites, sobs >>
  /\ UNCHANGED vars
  /\ UNCHANGED evars
  /\ UNCHANGED ivars

\* { ...defaultSettings, ...savedSettings }
Merge(saved) ==
  [k \in SettingKeys |->
     IF k \in saved.keys THEN saved.value[k] ELSE defaultSettings[k]]

\* loadSettings without the migration of the legacy theme.
LoadSettings_NoMigration ==
  /\ settingsPc = "main"
  /\ settingsPc' = "loaded"
  /\ settings' = Merge(settingsDb)
  /\ dataTheme' = settings'.theme
  /\ UNCHANGED << settingsDb, settingsWrites, sobs >>
  /\ UNCHANGED vars
  /\ UNCHANGED evars
  /\ UNCHANGED ivars

\* loadSettings(), called once by App's onMount before anything that changes
\* a setting is shown: the stored value is read, a 'system' theme becomes
\* 'dark', the defaults are merged in, the store is set and the theme applied.
LoadSettings ==
  /\ settingsPc = "main"
  /\ settingsPc' = "loaded"
  /\ LET saved == settingsDb
         migrated ==
           IF "theme" \in saved.keys /\ saved.value.theme = "system"
             THEN Stored(saved.keys, [saved.value EXCEPT !.theme = "dark"])
             ELSE saved
     IN settings' = Merge(migrated)
  /\ dataTheme' = settings'.theme
  /\ UNCHANGED << settingsDb, settingsWrites, sobs >>
  /\ UNCHANGED vars
  /\ UNCHANGED evars
  /\ UNCHANGED ivars

\* updateSetting(key, value) up to its await: the store is updated, a theme
\* is applied, and saveSettings() hands the store's value to setSetting.
updateSetting(key, value) ==
  /\ settingsPc = "loaded"
  /\ Len(settingsWrites) < MaxSettingWrites
  /\ settings' = [settings EXCEPT ![key] = value]
  /\ dataTheme' = IF key = "theme" THEN value ELSE dataTheme
  /\ settingsWrites' = Append(settingsWrites, settings')
  /\ UNCHANGED << settingsPc, settingsDb >>
  /\ UNCHANGED vars
  /\ UNCHANGED evars
  /\ UNCHANGED ivars

\* The settings dialog's theme select: updateSetting('theme', t).
SetTheme(t) ==
  /\ updateSetting("theme", t)
  /\ sobs' = [last |-> "none", before |-> settings, twice |-> FALSE]

\* The toolbar menu's cycleTheme().
cycleTheme ==
  /\ updateSetting("theme", IF settings.theme = "dark" THEN "light" ELSE "dark")
  /\ sobs' = [last |-> "theme", before |-> settings, twice |-> sobs.last = "theme"]

\* A toggle that reads the value to flip from what the store has saved.
Toggle_FromStored(key) ==
  /\ updateSetting(key, ~Merge(settingsDb)[key])
  /\ sobs' = [last |-> key, before |-> settings, twice |-> sobs.last = key]

\* toggleSidebar, toggleFocusMode, toggleTypewriterMode, toggleFormatting:
\* the current value is read from the store and updateSetting called with
\* its negation.
Toggle(key) ==
  /\ updateSetting(key, ~settings[key])
  /\ sobs' = [last |-> key, before |-> settings, twice |-> sobs.last = key]

toggleSidebar == Toggle("sidebarOpen")

toggleFocusMode == Toggle("focusMode")

toggleTypewriterMode == Toggle("typewriterMode")

toggleFormatting == Toggle("showFormatting")

\* The oldest setSetting in flight completes: db.settings.put.
SetSettingDone ==
  /\ settingsWrites # <<>>
  /\ settingsDb' = Stored(SettingKeys, Head(settingsWrites))
  /\ settingsWrites' = Tail(settingsWrites)
  /\ UNCHANGED << settingsPc, settings, dataTheme, sobs >>
  /\ UNCHANGED vars
  /\ UNCHANGED evars
  /\ UNCHANGED ivars

\* ---------------------------------------------------------- specifications

\* Typing into one document with the store answering every write.
NextEdit ==
  \/ \E c \in Contents : UpdateContent(c)
  \/ Tick
  \/ \E h \in 1..MaxTimers : TimerFire(h)
  \/ \E i \in 1..MaxTasks : UpdateDocumentDone(i)

SpecEdit == Init /\ [][NextEdit]_vars

\* Editing and saving one document: edits, the debounce, Ctrl+S, the store
\* answering or failing.
NextSave ==
  \/ \E c \in SaveContents : UpdateContent(c)
  \/ Tick
  \/ \E h \in 1..MaxTimers : TimerFire(h)
  \/ SaveNow
  \/ \E i \in 1..MaxTasks : UpdateDocumentDone(i)
  \/ \E i \in 1..MaxTasks : UpdateDocumentFail(i)

SpecSave == Init /\ [][NextSave]_vars

\* The same with the title edited from the toolbar.
NextTitle ==
  \/ \E c \in Contents : UpdateContent(c)
  \/ Tick
  \/ \E h \in 1..MaxTimers : TimerFire(h)
  \/ SaveNow
  \/ \E t \in Titles : UpdateTitle(t)
  \/ \E i \in 1..MaxTasks : UpdateDocumentDone(i)
  \/ \E i \in 1..MaxTasks : UpdateDocumentFail(i)
  \/ \E i \in 1..MaxTasks : LoadDocumentsDone(i)

SpecTitle == Init /\ [][NextTitle]_vars

\* Editing and saving while documents are switched and deleted; the text
\* typed does not matter here and is drawn from SwitchContents.
NextSwitch ==
  \/ \E c \in SwitchContents : UpdateContent(c)
  \/ Tick
  \/ \E h \in 1..MaxTimers : TimerFire(h)
  \/ SaveNow
  \/ \E id \in DocIds : LoadDocument(id)
  \/ DeleteCurrentDocument
  \/ \E i \in 1..MaxTasks : UpdateDocumentDone(i)
  \/ \E i \in 1..MaxTasks : UpdateDocumentFail(i)
  \/ \E i \in 1..MaxTasks : GetDocumentDone(i)
  \/ \E i \in 1..MaxTasks : DeleteDocumentDone(i)
  \/ \E i \in 1..MaxTasks : CreateDocumentDone(i)
  \/ \E i \in 1..MaxTasks : LoadDocumentsDone(i)

SpecSwitch == Init /\ [][NextSwitch]_vars

\* A save in flight settles: the store answers the write or fails it.
SaveSettles ==
  \E i \in 1..MaxTasks :
    /\ i \in 1..Len(tasks)
    /\ tasks[i].kind \in SaveKinds
    /\ (UpdateDocumentDone(i) \/ UpdateDocumentFail(i))

\* SpecSwitch under the assumption that every save in flight settles.
SpecSwitchFair == SpecSwitch /\ WF_vars(SaveSettles)

\* Scenario A, repeated: a burst of edits starts from 'saved' with nothing
\* pending, each further edit comes before the debounce delay has passed, and
\* then the user waits for the save.
ScenarioEdit(content) ==
  /\ tasks = <<>>
  /\ \/ Pending(timers) = {} /\ saveStatus = "saved"
     \/ \E h \in Pending(timers) : timers[h][1].remaining > 0
  /\ UpdateContent(content)

NextScenarioA ==
  \/ \E c \in Contents : ScenarioEdit(c)
  \/ Tick
  \/ \E h \in 1..MaxTimers : TimerFire(h)
  \/ \E i \in 1..MaxTasks : UpdateDocumentDone(i)

SpecScenarioA == Init /\ [][NextScenarioA]_vars

\* Selection events over time, with focus mode off.
NextThrottle ==
  \/ handleSelectionChange
  \/ SelectionFrame
  \/ AdvanceClock(ClockMs, MaxNow)
  \/ Destroy

SpecThrottle == Init /\ [][NextThrottle]_evars

\* Frames keep coming and time passes.
SpecThrottleFair ==
  SpecThrottle /\ WF_evars(SelectionFrame) /\ WF_evars(AdvanceClock(ClockMs, MaxNow))

\* Focus mode toggled while the document is edited and the selection moves;
\* the clock advances by whole throttle periods.
NextFocus ==
  \/ \E b \in BOOLEAN : SetFocusMode(b)
  \/ \E k \in 0..MaxBlocks : MoveCursor(k)
  \/ \E r \in Roots : \E k \in 1..MaxBlocks : EditRoot(r, k)
  \/ handleSelectionChange
  \/ SelectionFrame
  \/ AdvanceClock(SELECTION_CHANGE_THROTTLE_MS, MaxNow)
  \/ Destroy

SpecFocus == Init /\ [][NextFocus]_evars

\* Typewriter mode while the user types, scrolls and time passes.
NextTypewriter ==
  \/ \E b \in BOOLEAN : SetTypewriterMode(b)
  \/ \E cy \in CursorYs : \E f \in BOOLEAN : ApplyTypewriterMode(cy, f)
  \/ AnimationFrame
  \/ \E v \in {0, MaxScrollTop} : UserScroll(v)
  \/ AdvanceClock(ScrollClockMs, MaxScrollNow)
  \/ Destroy

SpecTypewriter == Init /\ [][NextTypewriter]_evars

\* Frames keep coming and time passes.
SpecTypewriterFair ==
  /\ SpecTypewriter
  /\ WF_evars(AnimationFrame)
  /\ WF_evars(AdvanceClock(ScrollClockMs, MaxScrollNow))

\* Scenario D: typing moves the cursor now and then, one move per animation
\* task, and the display refreshes at its rate.
NextScenarioD ==
  \/ \E b \in BOOLEAN : SetTypewriterMode(b)
  \/ \E cy \in CursorYs : DriftEvent(cy)
  \/ DisplayFrame
  \/ Destroy

SpecScenarioD == Init /\ [][NextScenarioD]_evars

\* The document is typed into and saved while the selection moves, both modes
\* are toggled and the typewriter controller scrolls.
NextVisual ==
  \/ \E c \in SwitchContents : UpdateContent(c)
  \/ Tick
  \/ \E h \in 1..MaxTimers : TimerFire(h)
  \/ \E i \in 1..MaxTasks : UpdateDocumentDone(i)
  \/ \E b \in BOOLEAN : SetFocusMode(b)
  \/ \E b \in BOOLEAN : SetTypewriterMode(b)
  \/ handleSelectionChange
  \/ SelectionFrame
  \/ \E cy \in CursorYs : DriftEvent(cy)
  \/ AnimationFrame
  \/ AdvanceClock(SELECTION_CHANGE_THROTTLE_MS, SELECTION_CHANGE_THROTTLE_MS)
  \/ Destroy

SpecVisual == Init /\ [][NextVisual]_<< vars, evars >>

\* The page is opened, the settings are loaded, and the theme and the
\* toggles are used while the writes complete.
NextSettings ==
  \/ \E saved \in StoredSettings : \E t \in Themes : OpenPage(saved, t)
  \/ LoadSettings
  \/ \E t \in Themes : SetTheme(t)
  \/ cycleTheme
  \/ toggleSidebar
  \/ toggleFocusMode
  \/ toggleTypewriterMode
  \/ toggleFormatting
  \/ SetSettingDone

SpecSettings == Init /\ [][NextSettings]_svars

\* Typing with typewriter mode: each edit requests a frame in which
\* applyTypewriterMode runs, with or without a measurable cursor (without
\* one, the cursor's position is not read).
NextTyping ==
  \/ \E b \in BOOLEAN : SetTypewriterMode(b)
  \/ RequestTypewriterFrame
  \/ \E cy \in CursorYs : TypewriterFrame("ok", cy)
  \/ \E g \in Geometry \ {"ok"} : TypewriterFrame(g, CursorPool[1])
  \/ AnimationFrame
  \/ AdvanceClock(ScrollClockMs, MaxScrollNow)
  \/ Destroy

SpecTyping == Init /\ [][NextTyping]_evars

\* Both modes toggled while the selection moves, the user types and the
\* animation runs, up to the component's destruction.
NextCancel ==
  \/ \E b \in BOOLEAN : SetFocusMode(b)
  \/ \E k \in 0..MaxBlocks : MoveCursor(k)
  \/ \E b \in BOOLEAN : SetTypewriterMode(b)
  \/ \E cy \in CursorYs : \E f \in BOOLEAN : ApplyTypewriterMode(cy, f)
  \/ AnimationFrame
  \/ Destroy

SpecCancel == Init /\ [][NextCancel]_evars

\* Rapid switching: the user types into a document once, then waits or
\* switches to another document and types there (no document is typed into
\* again while its own save is waiting in the timer).
SwitchEdit(content) ==
  /\ currentDocument # <<>>
  /\ \A h \in Pending(timers) : timers[h][1].id # currentDocument[1].id
  /\ UpdateContent(content)

NextRapidSwitch ==
  \/ \E c \in SwitchContents : SwitchEdit(c)
  \/ Tick
  \/ \E h \in 1..MaxTimers : TimerFire(h)
  \/ \E id \in DocIds : LoadDocument(id)
  \/ \E i \in 1..MaxTasks : GetDocumentDone(i)
  \/ \E i \in 1..MaxTasks : UpdateDocumentDone(i)

SpecRapidSwitch == Init /\ [][NextRapidSwitch]_vars

\* Time passes, every due timer fires and the store answers every call.
SpecRapidSwitchFair ==
  /\ SpecRapidSwitch
  /\ WF_vars(Tick)
  /\ \A h \in 1..MaxTimers : WF_vars(TimerFire(h))
  /\ \A i \in 1..MaxTasks : WF_vars(GetDocumentDone(i))
  /\ \A i \in 1..MaxTasks : WF_vars(UpdateDocumentDone(i))

\* Documents are selected in the sidebar, one after another and as fast as
\* the user likes, while the component creates an editor for each.
NextInstances ==
  \/ \E id \in DocIds : LoadDocument(id)
  \/ \E i \in 1..MaxTasks : GetDocumentDone(i)
  \/ DocumentChanged
  \/ CreateEditorDone
  \/ Destroy

SpecInstances == Init /\ [][NextInstances]_<< vars, evars, ivars >>

\* ----------------------------------------------------------------- claims

IsSave(i) == i \in 1..Len(tasks) /\ tasks[i].kind \in SaveKinds

Quiescent == tasks = <<>> /\ Pending(timers) = {}

CurrentContent == currentDocument[1].content

StoredContent(id) == db[id][1].content

SaveCount == Cardinality({ i \in 1..Len(tasks) : IsSave(i) })

LastTask == tasks[Len(tasks)]

\* A timer set in this step.
Armed(h) ==
  /\ timers'[h] # <<>>
  /\ timers'[h] # timers[h]
  /\ timers'[h][1].remaining = DEBOUNCE_MS

\* C1: debounce coalescing. After any number of updateContent calls, as long
\* as the debounce delay has not run out since the last one, no write has been
\* started and exactly one timer is pending, carrying the last call's content;
\* once that timer has fired, exactly one write has been started since the
\* last call, and it carries the last call's content.
C1_DebounceCoalesces ==
  saveTimeout # 0 =>
    \/ /\ Pending(timers) = {saveTimeout}
       /\ timers[saveTimeout][1].content = CurrentContent
       /\ obs.issued = <<>>
    \/ /\ Pending(timers) = {}
       /\ obs.issued = <<CurrentContent>>

\* A write started for a burst of at least two calls: the callback saw no
\* title change although nothing has been stored yet.
C1_Witness ==
  /\ obs.issued # <<>>
  /\ Len(tasks) = 1
  /\ ~tasks[1].hasTitle
  /\ tasks[1].title # Untitled
  /\ db[tasks[1].id][1].title = Untitled
  /\ db[tasks[1].id][1].content = EmptyContent

\* C2: at most one save (a write started by the debounce callback or by
\* saveNow) is in flight per document.
C2_OneSaveInFlight ==
  \A d \in DocIds : Cardinality({ i \in 1..Len(tasks) : IsSave(i) /\ tasks[i].id = d }) <= 1

\* C3: no lost update. With only updateContent calls and every write
\* succeeding, once nothing is pending any more the stored content is the
\* content of the last call.
C3_NoLostUpdate ==
  (Quiescent /\ currentDocument # <<>>) =>
    StoredContent(currentDocument[1].id) = CurrentContent

\* C4: a save that succeeds sets 'saved', one that fails sets 'unsaved', and
\* the failure is caught.
C4_SaveOutcome ==
  [][\A i \in 1..MaxTasks :
       IsSave(i) =>
         /\ UpdateDocumentDone(i) => (saveStatus' = "saved" /\ ~uncaught')
         /\ UpdateDocumentFail(i) => (saveStatus' = "unsaved" /\ ~uncaught')]_vars

\* A failed save has left 'unsaved' behind with nothing pending.
C4_Witness ==
  /\ Quiescent
  /\ saveStatus = "unsaved"
  /\ obs.sinceFail

Allowed == { <<"saved", "unsaved">>, <<"unsaved", "saving">>, <<"saving", "saved">> }

\* C6: scenario A. From 'saved', a burst of edits, the wait and the successful
\* write take saveStatus through unsaved, saving, saved and nothing else; the
\* callback starts the only write, with the burst's last content, and 'saved'
\* is reached with that content stored.
C6_ScenarioA ==
  [][/\ saveStatus' # saveStatus => <<saveStatus, saveStatus'>> \in Allowed
     /\ saveStatus' = "saving" =>
          /\ Len(tasks') = 1
          /\ tasks'[1].content = CurrentContent'
          /\ Pending(timers') = {}
     /\ (saveStatus = "saving" /\ saveStatus' = "saved") =>
          /\ Quiescent'
          /\ obs'.issued = <<CurrentContent'>>
          /\ db'[currentDocument[1].id][1].content = CurrentContent']_vars

\* Scenario A has run to its end: saved, after a write.
C6_Witness ==
  /\ saveStatus = "saved"
  /\ Quiescent
  /\ obs.issued # <<>>
  /\ StoredContent(currentDocument[1].id) # EmptyContent

\* C7: the stored title is the title derived from the stored content.
C7_TitleMatchesContent ==
  \A d \in DocIds :
    db[d] # <<>> => db[d][1].title = NewTitle(db[d][1].content)

\* C8: when the debounce callback runs, the content it writes is the content
\* of currentDocument.
C8_FreshAtFire ==
  [][\A h \in 1..MaxTimers :
       TimerFire(h) =>
         (currentDocument # <<>> /\ timers[h][1].content = CurrentContent)]_vars

\* C5: saveStatus is never stuck in 'saving': if every save in flight
\* settles, 'saving' is always followed by 'saved' or 'unsaved', whatever
\* edits, saveNow calls, document switches and deletions come in between.
C5_NeverStuckSaving ==
  (saveStatus = "saving") ~> (saveStatus \in {"saved", "unsaved"})

\* 'saving' while a switch or a deletion is under way.
C5_Witness ==
  /\ saveStatus = "saving"
  /\ \E i \in 1..Len(tasks) : tasks[i].kind \in {"load", "delete"}

\* What C9 says of the failing step itself: the in-memory document is left
\* as it is and the status is 'unsaved'.
FailureKeepsEdit ==
  \A i \in 1..MaxTasks :
    (IsSave(i) /\ UpdateDocumentFail(i)) =>
      (currentDocument' = currentDocument /\ saveStatus' = "unsaved")

\* What C9 says of the next save: saveNow writes the content in memory at its
\* call, and the timer an updateContent call sets writes that call's content.
NextSaveWritesCurrent ==
  /\ (SaveNow /\ currentDocument # <<>>) => LastTask'.content = CurrentContent
  /\ \A c \in Contents :
       UpdateContent(c) =>
         (CurrentContent' = c /\ timers'[saveTimeout'][1].content = c)
  /\ \A h \in 1..MaxTimers :
       TimerFire(h) => LastTask'.content = timers[h][1].content

\* C9 as stated: a failed save leaves the edit and 'unsaved', and after it no
\* save is started until updateContent or saveNow is called again.
C9_NoWriteUntilNextCall ==
  [][/\ FailureKeepsEdit
     /\ NextSaveWritesCurrent
     /\ (obs.sinceFail /\ obs'.sinceFail) => SaveCount' <= SaveCount]_vars

\* C9 as amended: a failed save leaves the edit and 'unsaved', and the failure
\* starts nothing: it leaves the timers, the store and the other tasks alone.
\* A save is only ever started by a debounce timer or by saveNow, and a timer
\* is only ever set by updateContent; so after a failure the next save is
\* either the one a timer set by an earlier updateContent call still owes, or
\* follows a new updateContent or saveNow call.
C9_NoRetry ==
  [][/\ FailureKeepsEdit
     /\ NextSaveWritesCurrent
     /\ \A i \in 1..MaxTasks :
          (IsSave(i) /\ UpdateDocumentFail(i)) =>
            (timers' = timers /\ db' = db /\ tasks' = Without(tasks, i))
     /\ SaveCount' > SaveCount => (SaveNow \/ \E h \in 1..MaxTimers : TimerFire(h))
     /\ (\E h \in 1..MaxTimers : Armed(h)) => \E c \in Contents : UpdateContent(c)]_vars

\* A save has failed: the edit is still in memory only, the status is
\* 'unsaved', and nothing is pending.
C9_Witness ==
  /\ obs.sinceFail
  /\ Quiescent
  /\ saveStatus = "unsaved"
  /\ currentDocument # <<>>
  /\ StoredContent(currentDocument[1].id) # CurrentContent

\* C10: saveNow leaves no timer pending, so the callback of the edits made
\* before it never runs; with a current document it starts exactly one write,
\* carrying the content in memory at the call; and when that write succeeds
\* the status is 'saved' and the store holds that content.
C10_SaveNowFlushes ==
  [][/\ SaveNow => Pending(timers') = {}
     /\ (SaveNow /\ currentDocument # <<>>) =>
          /\ saveStatus' = "saving"
          /\ tasks' = Append(tasks, Task("saveNow", "update", currentDocument[1].id,
                                         CurrentContent, <<>>, FALSE))
     /\ \A i \in 1..MaxTasks :
          (IsSave(i) /\ tasks[i].kind = "saveNow" /\ UpdateDocumentDone(i)
             /\ db[tasks[i].id] # <<>>) =>
            (saveStatus' = "saved" /\ db'[tasks[i].id][1].content = tasks[i].content)]_vars

\* saveNow was called with edits waiting in the debounce: their callback has
\* not run, no timer is pending, and saveNow's write is in flight.
C10_Witness ==
  /\ saveTimeout # 0
  /\ obs.issued = <<>>
  /\ Pending(timers) = {}
  /\ saveStatus = "saving"
  /\ \E i \in 1..Len(tasks) :
       /\ tasks[i].kind = "saveNow"
       /\ tasks[i].content = CurrentContent
       /\ tasks[i].content # StoredContent(tasks[i].id)

\* C11: when loadDocument makes another document current, no edit of the
\* previous document is still waiting in the debounce: its timer is gone
\* (flushed) before the switch.
C11_FlushBeforeSwitch ==
  [][\A i \in 1..MaxTasks :
       (/\ GetDocumentDone(i)
        /\ currentDocument # <<>>
        /\ currentDocument' # <<>>
        /\ currentDocument'[1].id # currentDocument[1].id) =>
         \A h \in Pending(timers) : timers[h][1].id # currentDocument[1].id]_vars

\* C12: a debounce callback only runs for the document that is current: once
\* another document is current, no callback set by an edit to the previous
\* one runs and changes saveStatus.
C12_NoStaleCallback ==
  [][\A h \in 1..MaxTimers :
       (TimerFire(h) /\ currentDocument # <<>>) =>
         timers[h][1].id = currentDocument[1].id]_vars

CeilDiv(a, b) == (a + b - 1) \div b

\* C13: from the first selection event on, the full recomputations (immediate
\* and trailing) number at most ceil(D / R) + 1, with D the time since that
\* event and R the 50 ms throttle.
C13_ThrottleBound ==
  eobs.start # -1 =>
    eobs.runs <= CeilDiv(now - eobs.start, SELECTION_CHANGE_THROTTLE_MS) + 1

\* C14: while the component is mounted, every selection event is followed by
\* a full recomputation: a throttled event does not stay unprocessed.
C14_LastEventProcessed ==
  (mounted /\ eobs.unprocessed) ~> (~mounted \/ ~eobs.unprocessed)

\* A throttled selection event waits for its trailing frame.
C14_Witness ==
  /\ mounted
  /\ eobs.unprocessed
  /\ selectionChangeRaf # <<>>
  /\ eobs.runs > 0

\* C15: with focus mode on, the selection in the root's child at position k
\* and applyFocusActiveStyle run for that selection, the one style element's
\* rule is the one for nth-child(k): the child at position k, and no other,
\* is given full opacity.
C15_FocusedBlockLit ==
  (mounted /\ focusMode /\ cursor # 0 /\ eobs.synced) =>
    (headStyles = 1 /\ styleRule = cursor)

\* C16: a call of applyFocusActiveStyle with the selection in the child whose
\* index is the recorded one neither creates the style element nor sets its
\* text.
C16_NoRewriteOnSameIndex ==
  [][SameIndex => ~styleTouched']_evars

\* applyFocusActiveStyle has run again with the selection at the recorded
\* index, the rule in place.
C16_Witness ==
  /\ focusMode
  /\ eobs.repeat
  /\ headStyles = 1
  /\ styleRule # 0
  /\ SameIndex

\* C17: with focus mode off there is no focus style element, and no step
\* taken with focus mode off (a trailing frame requested while it was on
\* included) creates one or sets its text.
C17_DisableRemovesStyle ==
  [][~focusMode' => (headStyles' = 0 /\ ~focusModeStyleEl' /\ ~styleTouched')]_evars

\* A trailing frame requested with focus mode on has run after focus mode was
\* turned off, and there is no style element.
C17_Witness ==
  /\ mounted
  /\ ~focusMode
  /\ eobs.lateFrame
  /\ headStyles = 0

\* C18: at most one focus style element exists, the one the component refers
\* to, and only while the component is mounted with focus mode on.
C18_OneStyleElement ==
  /\ headStyles <= 1
  /\ focusModeStyleEl <=> headStyles = 1
  /\ headStyles = 1 => (mounted /\ focusMode)

\* The style element exists, after the index has changed more than once.
C18_Witness ==
  /\ headStyles = 1
  /\ focusModeStyleEl
  /\ styleRule = 2
  /\ eobs.repeat

\* C19: a typewriter animation task moves the scroll position only within
\* TYPEWRITER_MAX_ANIMATION_MS of its start; a frame of it that runs later
\* moves nothing, marks the task not animating and requests no frame; and a
\* running task does stop.
C19_AnimationStops ==
  /\ [][AnimationFrame =>
          /\ scrollTop' # scrollTop =>
               now - eobs.taskStart <= TYPEWRITER_MAX_ANIMATION_MS
          /\ now - eobs.taskStart > TYPEWRITER_MAX_ANIMATION_MS =>
               (scrollTop' = scrollTop /\ ~isTypewriterAnimating'
                  /\ ~typewriterAnimationFrame')]_evars
  /\ isTypewriterAnimating ~> ~isTypewriterAnimating

\* A task whose target the clamped scroll position cannot reach has been
\* stopped by the time limit.
C19_Witness ==
  /\ eobs.timedOut
  /\ ~isTypewriterAnimating
  /\ ~typewriterAnimationFrame
  /\ ~Arrived(currentScrollTarget, scrollTop)
  /\ now - eobs.taskStart > TYPEWRITER_MAX_ANIMATION_MS

\* C20: applyTypewriterMode with the cursor off-centre and a jump of more
\* than 30 px from the last cursor Y (or forceInstant) sets the scroll
\* position to the target at once (as far as the area scrolls), leaves no
\* animation running and requests no frame.
C20_InstantScroll ==
  [][\A cy \in CursorYs : \A f \in BOOLEAN :
       (/\ ApplyTypewriterMode(cy, f)
        /\ f \/ Abs((cy - scrollTop) - lastCursorY) > INSTANT_SCROLL_THRESHOLD * Px
        /\ Abs((cy - scrollTop) - ViewHalf) > 2 * Px) =>
         /\ currentScrollTarget' = cy - ViewHalf
         /\ scrollTop' = Clamp(cy - ViewHalf)
         /\ ~isTypewriterAnimating'
         /\ ~typewriterAnimationFrame']_evars

\* An instant scroll has cancelled a running animation: the position is the
\* target and nothing is requested.
C20_Witness ==
  /\ eobs.cancelled
  /\ ~isTypewriterAnimating
  /\ ~typewriterAnimationFrame
  /\ scrollTop = Clamp(currentScrollTarget)
  /\ scrollTop # 0

\* The target is a position the scroll area can have.
Reachable(target) == Clamp(target) = target

\* What one animation frame does to the gap between the target and the
\* scroll position: within half a pixel nothing moves and the task ends; else
\* the position moves toward the target by 30% of the gap (to the tenth of a
\* pixel), the gap shrinks and the task goes on.
ClosesGap ==
  LET gap == currentScrollTarget - scrollTop
      move == scrollTop' - scrollTop
  IN IF 2 * Abs(gap) < Px
       THEN /\ move = 0
            /\ ~isTypewriterAnimating'
            /\ ~typewriterAnimationFrame'
       ELSE /\ 10 * Abs(move) <= 3 * Abs(gap)
            /\ 10 * Abs(move) > 3 * Abs(gap) - 10
            /\ (gap > 0) = (move > 0)
            /\ Abs(currentScrollTarget - scrollTop') < Abs(gap)
            /\ isTypewriterAnimating'
            /\ typewriterAnimationFrame'

C22_DisableCancelsTask ==
  [][~typewriterMode => ~AnimationFrame]_evars

\* A step of the focus or the typewriter path: the selection listener and
\* its trailing frame (with applyFocusActiveStyle), applyTypewriterMode, an
\* animation frame, and the stop and cancel operations run by a focus-mode
\* change and by onDestroy.
VisualStep ==
  \/ handleSelectionChange
  \/ SelectionFrame
  \/ \E cy \in CursorYs : ApplyTypewriterMode(cy, FALSE)
  \/ AnimationFrame
  \/ \E b \in BOOLEAN : SetFocusMode(b)
  \/ Destroy

\* C23: the focus and typewriter paths leave the current document, the
\* document list, the save status, the debounce timers and the store as they
\* were.
C23_VisualLayerOnly ==
  [][VisualStep => UNCHANGED vars]_<< vars, evars >>

\* The focus style is applied and the controller has scrolled while an edit
\* waits for its debounce timer.
C23_Witness ==
  /\ saveStatus = "unsaved"
  /\ Pending(timers) # {}
  /\ currentDocument[1].content # db[currentDocumentId][1].content
  /\ headStyles = 1
  /\ eobs.synced
  /\ scrollTop # 0

ToggleStep(key) ==
  \/ key = "sidebarOpen" /\ toggleSidebar
  \/ key = "focusMode" /\ toggleFocusMode
  \/ key = "typewriterMode" /\ toggleTypewriterMode
  \/ key = "showFormatting" /\ toggleFormatting

\* C25: a toggle flips its own setting and leaves the others as they were,
\* and the same toggle called twice in a row restores the settings, whether
\* or not the first call's write has completed.
C25_ToggleInvolution ==
  [][\A key \in ToggleKeys :
       ToggleStep(key) =>
         /\ settings'[key] = ~settings[key]
         /\ \A other \in SettingKeys \ {key} : settings'[other] = settings[other]
         /\ dataTheme' = dataTheme
         /\ sobs.last = key => settings' = sobs.before]_svars

\* A toggle has been called twice, the second time before the first call's
\* write completed, and both writes are still in flight.
C25_Witness ==
  /\ sobs.last \in ToggleKeys
  /\ sobs.twice
  /\ Len(settingsWrites) = 2
  /\ settingsWrites[2] = settings
  /\ settingsWrites[1] # settings
  /\ settingsWrites[1] = sobs.before
  /\ settingsWrites[1][sobs.last] # settings[sobs.last]

\* C26: a selection event is recomputed at once exactly when at least
\* SELECTION_CHANGE_THROTTLE_MS have passed since the last recomputation
\* (immediate or trailing); an event that is not recomputed at once changes
\* nothing of the focus style and leaves a trailing frame callback pending;
\* and never more than one trailing callback is pending.
C26_LeadingEdgeThrottle ==
  /\ [][handleSelectionChange =>
          /\ eobs'.runs \in {eobs.runs, eobs.runs + 1}
          /\ eobs.lastRun # -1 =>
               ((eobs'.runs = eobs.runs + 1) <=>
                  (now - eobs.lastRun >= SELECTION_CHANGE_THROTTLE_MS))
          /\ eobs'.runs = eobs.runs =>
               /\ UNCHANGED focusVars
               /\ ~styleTouched'
               /\ selectionChangeRaf' # <<>>
               /\ eobs'.frames = 1]_evars
  /\ [](eobs.frames <= 1)

\* A recomputation has run two throttle periods or more after the first
\* event, and an event throttled after it has its trailing callback pending.
C26_Witness ==
  /\ eobs.lastRun # -1
  /\ eobs.lastRun = lastSelectionChangeTime
  /\ eobs.lastRun - eobs.start >= 2 * SELECTION_CHANGE_THROTTLE_MS
  /\ eobs.unprocessed
  /\ eobs.frames = 1
  /\ selectionChangeRaf # <<>>
  /\ selectionChangeRaf[1] < now
  /\ now - eobs.lastRun < SELECTION_CHANGE_THROTTLE_MS
  /\ eobs.runs >= 2

\* The selection gives no block index: there is none inside the root, or its
\* top-level child is not of a recognised type.
NoBlockIndex == cursor = 0 \/ getBlockIndex(root, cursor) = -1

\* C27: a recomputation with focus mode on and no block index keeps the
\* style element, its rule and the remembered index as they were.
C27_NoIndexKeepsState ==
  [][((handleSelectionChange \/ SelectionFrame) /\ focusMode /\ NoBlockIndex) =>
       (UNCHANGED focusVars /\ ~styleTouched')]_evars

\* C28: applyTypewriterMode with the cursor less than 2 px from the centre
\* of the scroll area leaves the scroll position and the target as they were
\* and starts no animation (a running one is left as it is).
C28_Deadband ==
  [][\A cy \in CursorYs : \A f \in BOOLEAN :
       (ApplyTypewriterMode(cy, f) /\ Abs((cy - scrollTop) - ViewHalf) < 2 * Px) =>
         UNCHANGED << scrollTop, currentScrollTarget, isTypewriterAnimating,
                      typewriterAnimationFrame, typewriterAnimationStartTime >>]_evars

\* The last call found the cursor off the centre by less than 2 px, with no
\* animation running.
C28_Witness ==
  /\ typewriterMode
  /\ lastCursorY # ViewHalf
  /\ Abs(lastCursorY - ViewHalf) < 2 * Px
  /\ lastCursorY = CursorPool[1] - scrollTop
  /\ ~isTypewriterAnimating
  /\ ~typewriterAnimationFrame

\* C29: applyTypewriterMode called when the cursor cannot be measured (no
\* scroll area, no range, a range that is not collapsed, a rectangle of
\* height 0) returns with the scroll position, the target, the last cursor
\* Y and the animation state as they were.
C29_UnmeasuredIsNoOp ==
  [][\A g \in Geometry \ {"ok"} : \A cy \in CursorYs :
       TypewriterFrame(g, cy) =>
         UNCHANGED << scrollTop, currentScrollTarget, lastCursorY,
                      isTypewriterAnimating, typewriterAnimationFrame,
                      typewriterAnimationStartTime >>]_evars

\* A call without a measurable cursor has returned, with the mode on, while
\* an animation was running; the animation goes on.
C29_Witness ==
  /\ eobs.unmeasured
  /\ mounted
  /\ typewriterMode
  /\ isTypewriterAnimating
  /\ typewriterAnimationFrame
  /\ scrollTop # Clamp(currentScrollTarget)

\* C30: once the component is destroyed no frame requested before runs:
\* the content listener's callback does not take applyTypewriterMode past
\* its check of the setting, no animation or selection frame runs, and the
\* scroll position, the target and the animation state stay as onDestroy
\* left them.
C30_NothingRunsAfterDestroy ==
  [][~mounted =>
       /\ \A g \in Geometry : \A cy \in CursorYs :
            ~(typewriterMode /\ TypewriterFrame(g, cy))
       /\ ~AnimationFrame
       /\ ~SelectionFrame
       /\ UNCHANGED << scrollTop, currentScrollTarget, lastCursorY,
                       isTypewriterAnimating, typewriterAnimationFrame >>]_evars

\* C31: on teardown the outstanding scheduled work (the typewriter animation
\* frame, the trailing selection frame) is cancelled before the focus style
\* element is released: in the order onDestroy worked, no cancellation comes
\* after the release.
C31_CancelBeforeRelease ==
  \A i, j \in DOMAIN eobs.teardown :
    (eobs.teardown[i] = "releaseStyle"
       /\ eobs.teardown[j] \in {"cancelTypewriterFrame", "cancelSelectionFrame"})
      => j < i

\* A step in which stopFocusModeLoop is called: the reactive block of a
\* mounted component with focus mode off, or onDestroy.
StopCall == (mounted /\ SetFocusMode(FALSE)) \/ Destroy

\* A step in which cancelTypewriterAnimation is called: an instant scroll of
\* applyTypewriterMode, or onDestroy.
CancelCall ==
  \/ Destroy
  \/ \E cy \in CursorYs : \E f \in BOOLEAN :
       /\ ApplyTypewriterMode(cy, f)
       /\ Abs(cy - scrollTop - ViewHalf) > 2 * Px
       /\ f \/ Abs(cy - scrollTop - lastCursorY) > INSTANT_SCROLL_THRESHOLD * Px

\* C32: the cancellations are idempotent. A call of stopFocusModeLoop leaves
\* no style element and no remembered index, and a call that finds no style
\* element changes nothing; a call of cancelTypewriterAnimation leaves no
\* frame requested and no animation running, and a call that finds no frame
\* requested changes nothing. So a second call in a row finds the state the
\* first left and keeps it. No call takes a style element that is not there
\* out of the document.
C32_CancellationIdempotent ==
  [][/\ StopCall =>
          /\ ~focusModeStyleEl'
          /\ lastActiveBlockIndex' = -1
          /\ headStyles' >= 0
          /\ ~focusModeStyleEl => UNCHANGED focusVars
     /\ CancelCall =>
          /\ ~typewriterAnimationFrame'
          /\ ~isTypewriterAnimating'
          /\ ~typewriterAnimationFrame =>
               UNCHANGED << typewriterAnimationFrame, isTypewriterAnimating >>]_evars

\* Both functions have been called with nothing to cancel, the animation
\* after an instant scroll had cancelled a running one, and the component
\* is destroyed.
C32_Witness ==
  /\ eobs.idleCalls = {"stopFocusModeLoop", "cancelTypewriterAnimation"}
  /\ eobs.cancelled
  /\ ~mounted
  /\ ~focusModeStyleEl
  /\ ~typewriterAnimationFrame

\* C33: when the write of a debounce callback for document d has succeeded,
\* the cached list keeps its length and the order of its ids; the entry of d
\* (if the list has one) gets the written content and the title derived from
\* it and keeps its id; every other entry is unchanged. The list is not
\* read again from the store.
C33_OnlySavedEntryPatched ==
  [][\A i \in 1..MaxTasks :
       (UpdateDocumentDone(i) /\ tasks[i].kind = "timer") =>
         /\ Len(documents') = Len(documents)
         /\ \A k \in 1..Len(documents) :
              /\ documents'[k].id = documents[k].id
              /\ IF documents[k].id = tasks[i].id
                   THEN /\ documents'[k].content = tasks[i].content
                        /\ documents'[k].title = NewTitle(tasks[i].content)
                   ELSE documents'[k] = documents[k]]_vars

\* A debounce-fired save of the document that is second in the list has
\* succeeded: its entry has the content and the title, the first entry is
\* as it was, and the list's order is no longer the store's (the saved
\* document is the store's newest).
C33_Witness ==
  /\ saveStatus = "saved"
  /\ tasks = <<>>
  /\ Len(documents) = 2
  /\ documents[1].content = EmptyContent
  /\ documents[2].content = ContentPool[1]
  /\ documents[2].title = NewTitle(ContentPool[1])
  /\ dbOrder = << documents[2].id, documents[1].id >>
  /\ db[documents[2].id][1].content = ContentPool[1]

\* C34: whenever the status is 'saved', the content stored for the current
\* document is the content of currentDocument.
C34_SavedMeansStored ==
  (saveStatus = "saved" /\ currentDocument # <<>>) =>
    /\ db[currentDocument[1].id] # <<>>
    /\ db[currentDocument[1].id][1].content = currentDocument[1].content

\* C35: an edit waiting in the debounce timer is not lost by a switch: when
\* a save of document a is waiting in the timer, the content it carries is
\* eventually the content stored for a, also when the user has meanwhile
\* switched to another document and typed there.
C35_EditSurvivesSwitch ==
  \A a \in 1..InitDocs :
    (\E h \in Pending(timers) : timers[h][1].id = a)
      ~> (db[a] # <<>> /\ db[a][1].content = ContentPool[1])

\* C36: when the write of a debounce callback for document d has succeeded,
\* the cached list's entry for d agrees with the document stored for d on
\* content, title and word count.
C36_CacheAgreesWithStore ==
  [][\A i \in 1..MaxTasks :
       (UpdateDocumentDone(i) /\ tasks[i].kind = "timer" /\ db[tasks[i].id] # <<>>) =>
         \A k \in 1..Len(documents') :
           documents'[k].id = tasks[i].id =>
             /\ documents'[k].content = db'[tasks[i].id][1].content
             /\ documents'[k].title = db'[tasks[i].id][1].title
             /\ documents'[k].wordCount = db'[tasks[i].id][1].wordCount]_vars

\* C37: in every reachable state of the typewriter controller
\* isTypewriterAnimating is true exactly when typewriterAnimationFrame is
\* set, which is exactly when an animation frame callback is pending, and
\* never more than one is pending.
C37_OneAnimationChain ==
  /\ isTypewriterAnimating <=> typewriterAnimationFrame
  /\ typewriterAnimationFrame <=> eobs.chains > 0
  /\ eobs.chains \in {0, 1}

\* An animation is running that was started after the clock had advanced
\* and after cancelTypewriterAnimation had been called with none running.
C37_Witness ==
  /\ isTypewriterAnimating
  /\ typewriterAnimationFrame
  /\ eobs.chains = 1
  /\ eobs.taskStart >= ScrollClockMs
  /\ "cancelTypewriterAnimation" \in eobs.idleCalls
  /\ scrollTop # Clamp(currentScrollTarget)

\* C38: once every initEditor call has completed (none awaits the creation
\* of its editor, and the component has seen the current document), exactly
\* one editor is alive, editorInstance refers to it, and it was created for
\* the document selected last, with that document's content.
C38_OneEditorAlive ==
  (mounted /\ creating = <<>> /\ currentDocumentId = lastDocumentId) =>
    /\ Cardinality(editors) = 1
    /\ \A e \in editors :
         /\ e.id = editorInstance
         /\ e.doc = lastDocumentId
         /\ e.content = currentDocument[1].content

\* C39: a deleted document does not come back. A key of the store that has
\* been deleted stays deleted whatever write resolves later, and once the
\* deletion has reloaded the list (no call is between its delete and its
\* reload) the cached list has no entry with that id, also after a debounce
\* timer that was pending at the deletion has fired and its write has
\* resolved.
C39_DeletedStaysDeleted ==
  /\ [][\A d \in DocIds : (d < nextId /\ db[d] = <<>>) => db'[d] = <<>>]_vars
  /\ [](\A d \in DocIds :
         (/\ d < nextId
          /\ db[d] = <<>>
          /\ \A i \in 1..Len(tasks) : tasks[i].pc # "list") =>
           \A k \in 1..Len(documents) : documents[k].id # d)

\* The write of a debounce callback for document 2 has resolved after the
\* document was deleted; the deletion is complete, nothing is in flight, and
\* neither the store nor the list has the document.
C39_Witness ==
  /\ 2 \in obs.lateWrites
  /\ tasks = <<>>
  /\ Pending(timers) = {}
  /\ db[2] = <<>>
  /\ \A k \in 1..Len(documents) : documents[k].id # 2
  /\ currentDocumentId = 1

\* C40: when a deleteCurrentDocument call completes (its last await, the
\* getDocument of the loadDocument it ends with, resolves) a current
\* document is selected, currentDocumentId is its id, and it is the document
\* the call asked for: the first of the list it reloaded, or the one it
\* created when that list was empty.
C40_SelectedAfterDelete ==
  [][\A i \in 1..MaxTasks :
       (GetDocumentDone(i) /\ tasks[i].kind \in {"delete", "new"}) =>
         /\ currentDocument' # <<>>
         /\ currentDocumentId' = currentDocument'[1].id
         /\ currentDocumentId' = tasks[i].id]_vars

====
